---- MODULE Spec2Model ----
(***************************************************************************)
(* A model of the generative-content orchestration layer of royal-recipes: *)
(* the retry helper withRetry and the exported generation operations       *)
(* (services/geminiService.ts), the <<name|quantity>> instruction markup   *)
(* as the three transforms read it (RichInstruction.tsx, cleanText and     *)
(* spokenText in geminiService.ts), the PCM-to-WAV transcoder pcmToWav,    *)
(* the prompt generateStepVisual builds, and the call sites that sequence  *)
(* the generation: RecipeCard's background loop with CookMode's on-demand  *)
(* loads, TutorialPlayer's narrated playback, and App's search.            *)
(*                                                                         *)
(* JavaScript strings are modelled as sequences of one-character strings,  *)
(* byte arrays as sequences of numbers in 0..255.                          *)
(***************************************************************************)
EXTENDS Integers, Sequences, FiniteSets, TLC

VARIABLES
    \* ---- withRetry and its callers (services/geminiService.ts) ----
    caller,        \* which function called withRetry ("withRetry": any fn)
    retries,       \* parameter retries of withRetry
    baseDelay,     \* parameter baseDelay of withRetry
    i,             \* the loop index of withRetry
    pc,            \* where withRetry is: loop, awaiting, delay, returned, thrown
    calls,         \* history: the number of invocations of fn so far
    waits,         \* history: the waitTime of every delay started, in order
    log,           \* history: "call", "ok", "fail", "wait", in order
    lastError,     \* history: the error of the latest rejected invocation of fn
    lastValue,     \* history: the value of the latest fulfilled invocation of fn
    lastResponse,  \* history: what the upstream request of the latest invocation gave
    settled,       \* how withRetry's promise settled
    opResult,      \* how the calling exported operation's promise settled
    \* ---- instruction markup ----
    segs,          \* history: the pieces the instruction text was composed of
    text,          \* the instruction text
    rendered,      \* RichInstruction's tokens for text
    cleaned,       \* generateStepVisual's cleanText(text)
    spoken,        \* generateStepAudio's spokenText
    ran,           \* which of the three transforms has run on text
    \* ---- pcmToWav ----
    pcmData,       \* parameter pcmData
    sampleRate,    \* parameter sampleRate
    wav,           \* the bytes of the Blob pcmToWav returned
    \* ---- RecipeCard and CookMode (components/RecipeCard.tsx, CookMode.tsx) ----
    numSteps,      \* recipe.steps.length of every recipe
    recipe,        \* RecipeCard's prop recipe (NoRecipe: no card is mounted)
    stepImages,    \* RecipeCard's state stepImages
    loops,         \* every run of generateAllStepImages so far, one per effect run
    isCookMode,    \* RecipeCard's state isCookMode
    currentIndex,  \* CookMode's state currentIndex
    localImages,   \* CookMode's state localImages
    loadingImage,  \* CookMode's state loadingImage
    cookRuns,      \* the runs of CookMode's loadImages whose request is in flight
    \* ---- TutorialPlayer (components/TutorialPlayer.tsx) ----
    player,        \* TutorialPlayer's state, refs and props
    contentRuns,   \* the runs of loadContent that are suspended at an await
    preloads,      \* the requests of preloadNext in flight
    timers,        \* the pending timers of handleAudioEnded
    playerLast,    \* history: the latest event of the player
    \* ---- App (App.tsx) ----
    app,           \* App's state: query, recipe, loading, error, hasSearched
    request,       \* the generateRecipe call handleSearch is awaiting
    searches,      \* history: the number of searches started
    \* ---- the prompt of generateStepVisual ----
    instruction,          \* parameter instruction
    previousInstructions, \* parameter previousInstructions
    prompt                \* the parts of the prompt that depend on them

retryVars == <<caller, retries, baseDelay, i, pc, calls, waits, log, lastError,
               lastValue, lastResponse, settled, opResult>>
markupVars == <<segs, text, rendered, cleaned, spoken, ran>>
wavVars == <<pcmData, sampleRate, wav>>
cardVars == <<numSteps, recipe, stepImages, loops, isCookMode, currentIndex,
              localImages, loadingImage, cookRuns>>
playerVars == <<player, contentRuns, preloads, timers, playerLast>>
appVars == <<app, request, searches>>
promptVars == <<instruction, previousInstructions, prompt>>
vars == <<retryVars, markupVars, wavVars, cardVars, playerVars, appVars,
          promptVars>>

\* What a step of one component leaves alone.
notRetryVars == <<markupVars, wavVars, cardVars, playerVars, appVars, promptVars>>
notMarkupVars == <<retryVars, wavVars, cardVars, playerVars, appVars, promptVars>>
notWavVars == <<retryVars, markupVars, cardVars, playerVars, appVars, promptVars>>
notCardVars == <<retryVars, markupVars, wavVars, playerVars, appVars, promptVars>>
notPlayerVars == <<retryVars, markupVars, wavVars, cardVars, appVars, promptVars>>
notAppVars == <<retryVars, markupVars, wavVars, cardVars, playerVars, promptVars>>
notPromptVars == <<retryVars, markupVars, wavVars, cardVars, playerVars, appVars>>

\* A value that is absent: undefined or null, a promise not settled, a
\* transform not run.
None == "none"

(***************************************************************************)
(* Strings                                                                 *)
(***************************************************************************)

\* String.prototype.startsWith
StartsWith(s, prefix) ==
    /\ Len(prefix) <= Len(s)
    /\ SubSeq(s, 1, Len(prefix)) = prefix

\* String.prototype.endsWith
EndsWith(s, suffix) ==
    /\ Len(suffix) <= Len(s)
    /\ SubSeq(s, Len(s) - Len(suffix) + 1, Len(s)) = suffix

\* String.prototype.includes: the search string is looked for at every
\* position from the first on.
RECURSIVE IncludesFrom(_, _, _)
IncludesFrom(s, search, from) ==
    IF from + Len(search) - 1 > Len(s) THEN FALSE
    ELSE IF SubSeq(s, from, from + Len(search) - 1) = search THEN TRUE
    ELSE IncludesFrom(s, search, from + 1)

Includes(s, search) == IncludesFrom(s, search, 1)

\* All strings over alphabet of length at most n.
RECURSIVE StringsUpTo(_, _)
StringsUpTo(alphabet, n) ==
    IF n = 0 THEN {<<>>}
    ELSE LET shorter == StringsUpTo(alphabet, n - 1)
         IN  shorter \cup {Append(s, c) : s \in shorter, c \in alphabet}

(***************************************************************************)
(* Errors, and what the upstream generation request can give               *)
(***************************************************************************)

\* A property that may be missing is a sequence of at most one value.
Absent == <<>>
Some(x) == <<x>>

\* The longest message drawn over the alphabet of "429".
MaxMsgLen == 4

\* The largest retries withRetry is called with.
MaxRetries == 3

\* withRetry's defaults, which every caller in the repository uses.
DefaultRetries == 3
DefaultBaseDelay == 2000

BaseDelays == {500, DefaultBaseDelay}

Str429 == <<"4", "2", "9">>
StrQuota == <<"q", "u", "o", "t", "a">>

WordMessages ==
    { StrQuota,
      <<"Q", "u", "o", "t", "a">>,
      <<"Q", "U", "O", "T", "A">>,
      <<"q", "u", "o", "t">>,
      <<"n", "o", " ", "q", "u", "o", "t", "a", "!">>,
      <<"q", "u", "o", " ", "t", "a">> }

Messages == StringsUpTo({"4", "2", "9"}, MaxMsgLen) \cup WordMessages

StatusValues == {Absent, Some(429), Some(500)}

\* What the upstream request (ai.models.generateContent) rejects with, and
\* what an arbitrary fn rejects with.
UpstreamErrors ==
    [name : {"ApiError"}, status : StatusValues, code : StatusValues,
     message : {Absent} \cup {Some(m) : m \in Messages}]

NoErr == [name |-> "none", status |-> Absent, code |-> Absent, message |-> Absent]

\* generateRecipe's own error (line 113).
NoContentError ==
    [name |-> "Error", status |-> Absent, code |-> Absent,
     message |-> Some(<<"N", "o", " ", "c", "o", "n", "t", "e", "n", "t", " ",
                        "g", "e", "n", "e", "r", "a", "t", "e", "d">>)]

\* withRetry's own error (line 85).
MaxRetriesError ==
    [name |-> "Error", status |-> Absent, code |-> Absent,
     message |-> Some(<<"M", "a", "x", " ", "r", "e", "t", "r", "i", "e", "s", " ",
                        "e", "x", "c", "e", "e", "d", "e", "d">>)]

\* JSON.parse's SyntaxError: its message is the engine's and may quote the
\* body, so it is any message.
SyntaxErrors ==
    [name : {"SyntaxError"}, status : {Absent}, code : {Absent},
     message : {Some(m) : m \in Messages}]

\* atob's DOMException (InvalidCharacterError, whose legacy code is 5).
AtobErrors ==
    [name : {"InvalidCharacterError"}, status : {Absent}, code : {Some(5)},
     message : {Some(m) : m \in WordMessages}]

Errors == UpstreamErrors \cup SyntaxErrors \cup AtobErrors
              \cup {NoContentError, MaxRetriesError}

AuxiliaryOps == {"generateLeftoverSuggestions", "generateRecipeVisual",
                 "generateStepVisual", "generateStepAudio"}
Callers == {"withRetry", "generateRecipe"} \cup AuxiliaryOps

\* The values an arbitrary fn resolves with.
Values == {"v1", "v2"}

\* What a fulfilled upstream response holds, per caller.
Payloads(c) ==
    CASE c = "withRetry" -> Values
      [] c \in {"generateRecipe", "generateLeftoverSuggestions"} ->
            {"empty", "notJson", "otherJson", "conforming"}
      [] c \in {"generateRecipeVisual", "generateStepVisual"} ->
            {"noInlineData", "inlineData"}
      [] c = "generateStepAudio" -> {"noInlineData", "badBase64", "pcm"}

Responses(c) ==
    [kind : {"fulfilled"}, payload : Payloads(c), error : {NoErr}]
      \cup [kind : {"rejected"}, payload : {None}, error : UpstreamErrors]

NoResponse == [kind |-> "none", payload |-> None, error |-> NoErr]

Ok(v) == [ok |-> TRUE, value |-> v, error |-> NoErr]
Err(e) == [ok |-> FALSE, value |-> None, error |-> e]

(***************************************************************************)
(* The operations handed to withRetry: what one invocation of fn settles   *)
(* with, given what its upstream request gave.  A set: JSON.parse's and    *)
(* atob's errors are the engine's.                                         *)
(***************************************************************************)

\* An arbitrary fn: settles as it settles.
AnyFn(r) ==
    IF r.kind = "rejected" THEN {Err(r.error)} ELSE {Ok(r.payload)}

\* generateRecipe, lines 100-117: an empty body throws, JSON.parse throws on
\* a body that is not JSON, and what it parses is returned as a Recipe.
GenerateRecipeFn(r) ==
    IF r.kind = "rejected" THEN {Err(r.error)}
    ELSE IF r.payload = "empty" THEN {Err(NoContentError)}
    ELSE IF r.payload = "notJson" THEN {Err(e) : e \in SyntaxErrors}
    ELSE {Ok(r.payload)}

\* generateLeftoverSuggestions, lines 127-142.
GenerateLeftoverSuggestionsFn(r) ==
    IF r.kind = "rejected" THEN {Err(r.error)}
    ELSE IF r.payload = "empty" THEN {Ok("[]")}
    ELSE IF r.payload = "notJson" THEN {Err(e) : e \in SyntaxErrors}
    ELSE {Ok(r.payload)}

\* generateRecipeVisual, lines 157-170, and generateStepVisual, lines
\* 206-219: the first part with inlineData, or null.
GenerateVisualFn(r) ==
    IF r.kind = "rejected" THEN {Err(r.error)}
    ELSE IF r.payload = "inlineData" THEN {Ok("dataUri")}
    ELSE {Ok(None)}

\* generateStepAudio, lines 275-307.
GenerateStepAudioFn(r) ==
    IF r.kind = "rejected" THEN {Err(r.error)}
    ELSE IF r.payload = "pcm" THEN {Ok("blobUrl")}
    ELSE IF r.payload = "badBase64" THEN {Err(e) : e \in AtobErrors}
    ELSE {Ok(None)}

Fn(c, r) ==
    CASE c = "withRetry" -> AnyFn(r)
      [] c = "generateRecipe" -> GenerateRecipeFn(r)
      [] c = "generateLeftoverSuggestions" -> GenerateLeftoverSuggestionsFn(r)
      [] c \in {"generateRecipeVisual", "generateStepVisual"} -> GenerateVisualFn(r)
      [] c = "generateStepAudio" -> GenerateStepAudioFn(r)

(***************************************************************************)
(* withRetry                                                               *)
(***************************************************************************)

\* A string is truthy when it is there and not empty.
Truthy(message) == message # Absent /\ message[1] # <<>>

\* Lines 71-74 with "quota" looked for in either case: C4 must not hold of it.
IsRateLimitAnyCase(error) ==
    \/ error.status = Some(429)
    \/ error.code = Some(429)
    \/ (Truthy(error.message) /\ Includes(error.message[1], Str429))
    \/ (Truthy(error.message) /\ Includes(error.message[1], StrQuota))
    \/ (Truthy(error.message)
          /\ Includes(error.message[1], <<"Q", "u", "o", "t", "a">>))

\* Lines 71-74.
IsRateLimit(error) ==
    \/ error.status = Some(429)
    \/ error.code = Some(429)
    \/ (Truthy(error.message) /\ Includes(error.message[1], Str429))
    \/ (Truthy(error.message) /\ Includes(error.message[1], StrQuota))

\* Math.pow(2, n)
RECURSIVE Pow2(_)
Pow2(n) == IF n <= 0 THEN 1 ELSE 2 * Pow2(n - 1)

\* Line 77 without the exponential factor: C2 must not hold of it.
WaitTimeFixed(base, n) == base

\* Line 77.
WaitTime(base, n) == base * Pow2(n)

\* Line 76 without the test for the last attempt: C1 must not hold of it.
RetryAfterLastAttempt(error, n, max) == IsRateLimit(error)

\* Line 76 without the test for a rate limit: C3 must not hold of it.
RetryAfterAnyError(error, n, max) == n < max - 1

\* Line 76 with the last attempt retried as well: C17 must not hold of it.
RetryAfterOneMore(error, n, max) == IsRateLimit(error) /\ n < max

\* Line 76: whether the catch block waits and goes round again.
RetryAfter(error, n, max) == IsRateLimit(error) /\ n < max - 1

\* Line 67 as the test of a loop that runs its body once before testing:
\* C26 must not hold of it.
LoopTestAfterFirst(n, max) == n < max \/ n = 0

\* Line 67: i < retries.
LoopTest(n, max) == n < max

Pending == [kind |-> "pending", value |-> None, error |-> NoErr]
Returned(v) == [kind |-> "returned", value |-> v, error |-> NoErr]
Thrown(e) == [kind |-> "thrown", value |-> None, error |-> e]

\* generateStepAudio without its catch block: C5 must not hold of it.
OpCompletionAudioUncaught(c, s) ==
    IF s.kind = "thrown" /\ c \in AuxiliaryOps \ {"generateStepAudio"}
    THEN Returned(IF c = "generateLeftoverSuggestions" THEN "[]" ELSE None)
    ELSE s

\* What the exported operation does with withRetry's settled promise:
\* generateRecipe passes it on (line 100); the four others catch (lines
\* 143-146, 171-174, 220-223, 308-311).
OpCompletion(c, s) ==
    IF s.kind = "thrown" /\ c \in AuxiliaryOps
    THEN Returned(IF c = "generateLeftoverSuggestions" THEN "[]" ELSE None)
    ELSE s

RetryInit ==
    /\ caller \in Callers
    /\ IF caller = "withRetry"
       THEN retries \in (-1)..MaxRetries /\ baseDelay \in BaseDelays
       ELSE retries = DefaultRetries /\ baseDelay = DefaultBaseDelay
    /\ i = 0
    /\ pc = "loop"
    /\ calls = 0
    /\ waits = <<>>
    /\ log = <<>>
    /\ lastError = NoErr
    /\ lastValue = None
    /\ lastResponse = NoResponse
    /\ settled = Pending
    /\ opResult = Pending

\* Lines 67-69: the loop test holds and fn is invoked.
Invoke ==
    /\ pc = "loop"
    /\ LoopTest(i, retries)
    /\ pc' = "awaiting"
    /\ calls' = calls + 1
    /\ log' = Append(log, "call")
    /\ lastError' = NoErr
    /\ lastValue' = None
    /\ lastResponse' = NoResponse
    /\ UNCHANGED <<caller, retries, baseDelay, i, waits, settled, opResult>>
    /\ UNCHANGED notRetryVars

\* Line 85: the loop test fails.
Exhausted ==
    /\ pc = "loop"
    /\ ~LoopTest(i, retries)
    /\ pc' = "thrown"
    /\ settled' = Thrown(MaxRetriesError)
    /\ opResult' = OpCompletion(caller, settled')
    /\ UNCHANGED <<caller, retries, baseDelay, i, calls, waits, log, lastError,
                   lastValue, lastResponse>>
    /\ UNCHANGED notRetryVars

\* Line 69: fn's promise is fulfilled and withRetry returns its value.
FnFulfilled ==
    /\ pc = "awaiting"
    /\ \E r \in Responses(caller) : \E o \in Fn(caller, r) :
          /\ o.ok
          /\ lastResponse' = r
          /\ lastValue' = o.value
          /\ settled' = Returned(o.value)
    /\ pc' = "returned"
    /\ log' = Append(log, "ok")
    /\ opResult' = OpCompletion(caller, settled')
    /\ UNCHANGED <<caller, retries, baseDelay, i, calls, waits, lastError>>
    /\ UNCHANGED notRetryVars

\* Lines 70-82: fn's promise is rejected; the catch block starts a delay or
\* throws the error on.
FnRejected ==
    /\ pc = "awaiting"
    /\ \E r \in Responses(caller) : \E o \in Fn(caller, r) :
          /\ ~o.ok
          /\ lastResponse' = r
          /\ lastError' = o.error
          /\ IF RetryAfter(o.error, i, retries)
             THEN /\ waits' = Append(waits, WaitTime(baseDelay, i))
                  /\ log' = Append(Append(log, "fail"), "wait")
                  /\ pc' = "delay"
                  /\ UNCHANGED <<settled, opResult>>
             ELSE /\ pc' = "thrown"
                  /\ log' = Append(log, "fail")
                  /\ settled' = Thrown(o.error)
                  /\ opResult' = OpCompletion(caller, settled')
                  /\ UNCHANGED waits
    /\ UNCHANGED <<caller, retries, baseDelay, i, calls, lastValue>>
    /\ UNCHANGED notRetryVars

\* Lines 79-80 and 67: the delay is over, continue with i++.
DelayElapsed ==
    /\ pc = "delay"
    /\ i' = i + 1
    /\ pc' = "loop"
    /\ UNCHANGED <<caller, retries, baseDelay, calls, waits, log, lastError,
                   lastValue, lastResponse, settled, opResult>>
    /\ UNCHANGED notRetryVars

RetryNext == Invoke \/ Exhausted \/ FnFulfilled \/ FnRejected \/ DelayElapsed

(***************************************************************************)
(* The instruction markup <<name|quantity>>                                *)
(***************************************************************************)

\* The index of the first c in s at or after p, Len(s) + 1 if there is none.
FindChar(s, c, p) ==
    LET found == {k \in p..Len(s) : s[k] = c}
    IN  IF found = {} THEN Len(s) + 1
        ELSE CHOOSE k \in found : \A j \in found : k <= j

AtIs(s, p, c) == p >= 1 /\ p <= Len(s) /\ s[p] = c

\* String.prototype.split with a one-character separator.
RECURSIVE SplitOn(_, _)
SplitOn(s, c) ==
    LET q == FindChar(s, c, 1)
    IN  IF q > Len(s) THEN <<s>>
        ELSE <<SubSeq(s, 1, q - 1)>> \o SplitOn(SubSeq(s, q + 1, Len(s)), c)

\* RichInstruction.tsx line 36: the regular expression <<[^>]+>> matched at
\* p.  The index of the match's last character, 0 when it does not match.
\* [^>]+ takes the whole run of characters other than '>' (it cannot give
\* any back: what follows must be '>').
SpanEndAt(s, p) ==
    LET q == FindChar(s, ">", p + 2)
    IN  IF /\ AtIs(s, p, "<") /\ AtIs(s, p + 1, "<")
           /\ q > p + 2
           /\ AtIs(s, q, ">") /\ AtIs(s, q + 1, ">")
        THEN q + 1
        ELSE 0

\* Line 36: text.split(/(<<[^>]+>>)/g).  The text from p on, searched from
\* q on: the parts between the matches and, after each, the match itself.
RECURSIVE SplitSpansFrom(_, _, _)
SplitSpansFrom(s, p, q) ==
    IF q > Len(s) THEN <<SubSeq(s, p, Len(s))>>
    ELSE LET e == SpanEndAt(s, q)
         IN  IF e = 0 THEN SplitSpansFrom(s, p, q + 1)
             ELSE <<SubSeq(s, p, q - 1), SubSeq(s, q, e)>>
                      \o SplitSpansFrom(s, e + 1, e + 1)

SplitSpans(s) == SplitSpansFrom(s, 1, 1)

TextToken(part) ==
    [kind |-> "text", part |-> part, name |-> <<>>, quantity |-> <<>>]
IngredientToken(part, name, quantity) ==
    [kind |-> "ingredient", part |-> part, name |-> name, quantity |-> quantity]

\* Lines 41-51 taking only a content of exactly two pieces: C9 must not hold
\* of it.
RichTokenExactlyTwo(part) ==
    IF StartsWith(part, <<"<", "<">>) /\ EndsWith(part, <<">", ">">>)
    THEN LET content == SubSeq(part, 3, Len(part) - 2)
             pieces == SplitOn(content, "|")
         IN  IF Len(pieces) = 2 /\ pieces[1] # <<>> /\ pieces[2] # <<>>
             THEN IngredientToken(part, pieces[1], pieces[2])
             ELSE TextToken(part)
    ELSE TextToken(part)

\* Lines 41-51: what one part is rendered as.  Destructuring takes the
\* first two pieces of content.split('|'); a missing quantity is undefined.
RichToken(part) ==
    IF StartsWith(part, <<"<", "<">>) /\ EndsWith(part, <<">", ">">>)
    THEN LET content == SubSeq(part, 3, Len(part) - 2)
             pieces == SplitOn(content, "|")
             name == pieces[1]
             quantity == IF Len(pieces) >= 2 THEN pieces[2] ELSE <<>>
         IN  IF name # <<>> /\ quantity # <<>>
             THEN IngredientToken(part, name, quantity)
             ELSE TextToken(part)
    ELSE TextToken(part)

\* Lines 33-55: the tokens RichInstruction renders, in order.
RichInstruction(t) ==
    LET parts == SplitSpans(t)
    IN  [k \in 1..Len(parts) |-> RichToken(parts[k])]

\* What a rendered token shows inline: a text part as it is, an ingredient
\* as its name (lines 20 and 51).
RECURSIVE VisibleText(_)
VisibleText(tokens) ==
    IF tokens = <<>> THEN <<>>
    ELSE (IF Head(tokens).kind = "ingredient" THEN Head(tokens).name
          ELSE Head(tokens).part) \o VisibleText(Tail(tokens))

\* The regular expression <<([^|]+)\|([^>]+)>> of lines 181 and 272 matched
\* at p: [bar |-> the index of the '|', end |-> the index of the match's
\* last character], end 0 when it does not match.  Neither run can give a
\* character back.
AnnotationAt(s, p) ==
    LET bar == FindChar(s, "|", p + 2)
        gt == FindChar(s, ">", bar + 1)
    IN  IF /\ AtIs(s, p, "<") /\ AtIs(s, p + 1, "<")
           /\ bar > p + 2 /\ bar <= Len(s)
           /\ gt > bar + 1
           /\ AtIs(s, gt, ">") /\ AtIs(s, gt + 1, ">")
        THEN [bar |-> bar, end |-> gt + 1]
        ELSE [bar |-> 0, end |-> 0]

\* Line 181's replacement with '$2' for '$1': C7 must not hold of it.
QuantityOnly(name, quantity) == quantity

\* Line 181's replacement '$1'.
NameOnly(name, quantity) == name

\* Line 272's replacement '$2 of $1'.
QuantityOfName(name, quantity) == quantity \o <<" ", "o", "f", " ">> \o name

\* String.prototype.replace with the global expression above, from p on:
\* every match, leftmost first, replaced by its name alone (spoken FALSE) or
\* by "quantity of name" (spoken TRUE).  Where there is no match at p, what
\* stands before the next '<' is copied: a match starts at a '<'.
RECURSIVE ReplaceAnnotationsFrom(_, _, _)
ReplaceAnnotationsFrom(s, p, isSpoken) ==
    IF p > Len(s) THEN <<>>
    ELSE LET m == AnnotationAt(s, p)
             name == SubSeq(s, p + 2, m.bar - 1)
             quantity == SubSeq(s, m.bar + 1, m.end - 2)
             next == FindChar(s, "<", p + 1)
         IN  IF m.end = 0
             THEN SubSeq(s, p, next - 1)
                     \o ReplaceAnnotationsFrom(s, next, isSpoken)
             ELSE (IF isSpoken THEN QuantityOfName(name, quantity)
                   ELSE NameOnly(name, quantity))
                      \o ReplaceAnnotationsFrom(s, m.end + 1, isSpoken)

\* generateStepVisual, line 181.
cleanText(t) == ReplaceAnnotationsFrom(t, 1, FALSE)

\* generateStepAudio, line 272.
spokenText(t) == ReplaceAnnotationsFrom(t, 1, TRUE)

(***************************************************************************)
(* Instruction texts: what generateRecipe's response may hold as a step's  *)
(* instruction.  A text is composed of pieces, which are remembered: a     *)
(* literal character, an annotation <<name|quantity>>, or a span that is   *)
(* no annotation.                                                          *)
(***************************************************************************)

\* The most pieces an instruction text is composed of.
MaxSegs == 3

OpenTag == <<"<", "<">>
CloseTag == <<">", ">">>

LitChars == {"x", ">", "|", "<"}

\* Names and quantities: not empty, without '|' and without ">>".
Words == { <<"a">>, <<"b", "<">>, <<"a", ">", "b">> }

\* Spans that are no annotation: an unterminated "<<", no '|', an empty
\* name, an empty quantity, two '|'.
RawSpans ==
    { OpenTag,
      <<"<", "<", "a", ">", ">">>,
      <<"<", "<", "|", "b", ">", ">">>,
      <<"<", "<", "a", "|", ">", ">">>,
      <<"<", "<", "a", "|", "b", "|", "a", ">", ">">>,
      <<"<", "<", "a", "|", "|", "b", ">", ">">> }

Lit(c) == [kind |-> "lit", s |-> <<c>>, name |-> <<>>, quantity |-> <<>>]
Raw(span) == [kind |-> "raw", s |-> span, name |-> <<>>, quantity |-> <<>>]
Ann(name, quantity) ==
    [kind |-> "ann", s |-> OpenTag \o name \o <<"|">> \o quantity \o CloseTag,
     name |-> name, quantity |-> quantity]

Segments ==
    {Lit(c) : c \in LitChars} \cup {Raw(r) : r \in RawSpans}
        \cup {Ann(n, q) : n \in Words, q \in Words}

SegSeqs == UNION {[1..n -> Segments] : n \in 0..MaxSegs}

RECURSIVE Flatten(_)
Flatten(pieces) ==
    IF pieces = <<>> THEN <<>> ELSE Head(pieces).s \o Flatten(Tail(pieces))

MarkupInit ==
    /\ segs \in SegSeqs
    /\ text = Flatten(segs)
    /\ rendered = <<>>
    /\ cleaned = <<>>
    /\ spoken = <<>>
    /\ ran = None

\* RichInstruction renders the text.
Render ==
    /\ ran = None
    /\ rendered' = RichInstruction(text)
    /\ ran' = "RichInstruction"
    /\ UNCHANGED <<segs, text, cleaned, spoken>>
    /\ UNCHANGED notMarkupVars

\* generateStepVisual cleans the text (line 183).
Clean ==
    /\ ran = None
    /\ cleaned' = cleanText(text)
    /\ ran' = "cleanText"
    /\ UNCHANGED <<segs, text, rendered, spoken>>
    /\ UNCHANGED notMarkupVars

\* generateStepAudio makes the spoken text (line 272).
Speak ==
    /\ ran = None
    /\ spoken' = spokenText(text)
    /\ ran' = "spokenText"
    /\ UNCHANGED <<segs, text, rendered, cleaned>>
    /\ UNCHANGED notMarkupVars

MarkupNext == Render \/ Clean \/ Speak

(***************************************************************************)
(* pcmToWav                                                                *)
(***************************************************************************)

\* The longest PCM input drawn byte by byte.
MaxPcmLen == 3

PcmBytes == {0, 1, 255}

\* 24000 is what generateStepAudio passes (line 303).
SampleRates == {8000, 24000, 44100}

\* An input of 8000 bytes.
LongPcm == [k \in 1..8000 |-> (k * 7) % 256]

PcmInputs == UNION {[1..n -> PcmBytes] : n \in 0..MaxPcmLen} \cup {LongPcm}

\* String.prototype.charCodeAt for the characters of the header.
CharCode(c) ==
    CASE c = "R" -> 82 [] c = "I" -> 73 [] c = "F" -> 70 [] c = "W" -> 87
      [] c = "A" -> 65 [] c = "V" -> 86 [] c = "E" -> 69 [] c = "f" -> 102
      [] c = "m" -> 109 [] c = "t" -> 116 [] c = " " -> 32 [] c = "d" -> 100
      [] c = "a" -> 97

\* The bytes of buffer with bytes written from offset on (offsets from 0).
SetBytes(buffer, offset, bytes) ==
    [k \in 1..Len(buffer) |->
        IF k - 1 >= offset /\ k - 1 < offset + Len(bytes)
        THEN bytes[k - offset]
        ELSE buffer[k]]

\* Lines 264-268: setUint8 of every character's code.
writeString(view, offset, string) ==
    SetBytes(view, offset, [k \in 1..Len(string) |-> CharCode(string[k]) % 256])

\* setUint32 without littleEndian = true: C10 must not hold of it.
setUint32BigEndian(view, offset, value) ==
    SetBytes(view, offset,
             <<(value \div 16777216) % 256, (value \div 65536) % 256,
               (value \div 256) % 256, value % 256>>)

\* DataView.setUint32(offset, value, true): little-endian, modulo 2^32 (the
\* fourth byte's % 256; the model's numbers stay below 2^31).
setUint32(view, offset, value) ==
    SetBytes(view, offset,
             <<value % 256, (value \div 256) % 256, (value \div 65536) % 256,
               (value \div 16777216) % 256>>)

\* DataView.setUint16(offset, value, true): little-endian, modulo 2^16.
setUint16(view, offset, value) ==
    LET v == value % 65536
    IN  SetBytes(view, offset, <<v % 256, (v \div 256) % 256>>)

\* Lines 229-262.  The division by 8 is exact for an integer rate.
pcmToWav(pcm, rate) ==
    LET numChannels == 1
        bitsPerSample == 16
        byteRate == (rate * numChannels * bitsPerSample) \div 8
        blockAlign == (numChannels * bitsPerSample) \div 8
        dataSize == Len(pcm)
        b0 == [k \in 1..(44 + dataSize) |-> 0]
        b1 == writeString(b0, 0, <<"R", "I", "F", "F">>)
        b2 == setUint32(b1, 4, 36 + dataSize)
        b3 == writeString(b2, 8, <<"W", "A", "V", "E">>)
        b4 == writeString(b3, 12, <<"f", "m", "t", " ">>)
        b5 == setUint32(b4, 16, 16)
        b6 == setUint16(b5, 20, 1)
        b7 == setUint16(b6, 22, numChannels)
        b8 == setUint32(b7, 24, rate)
        b9 == setUint32(b8, 28, byteRate)
        b10 == setUint16(b9, 32, blockAlign)
        b11 == setUint16(b10, 34, bitsPerSample)
        b12 == writeString(b11, 36, <<"d", "a", "t", "a">>)
        b13 == setUint32(b12, 40, dataSize)
    IN  SetBytes(b13, 44, pcm)

WavInit ==
    /\ pcmData \in PcmInputs
    /\ sampleRate \in SampleRates
    /\ wav = <<>>

\* pcmToWav is called; wav is what the Blob holds.
Convert ==
    /\ wav = <<>>
    /\ wav' = pcmToWav(pcmData, sampleRate)
    /\ UNCHANGED <<pcmData, sampleRate>>
    /\ UNCHANGED notWavVars

WavNext == Convert

(***************************************************************************)
(* RecipeCard: the background loop generateAllStepImages of its effect,    *)
(* and CookMode's on-demand loads.  A render of a component and the        *)
(* effects it commits are one step.                                        *)
(***************************************************************************)

\* The longest recipe, in steps.
MaxSteps == 3

\* The most runs of RecipeCard's effect (mounts and recipe changes).
MaxEffects == 2

\* The most requests of CookMode in flight at once.
MaxCookRuns == 3

\* RecipeCard line 46: the milliseconds between two requests of a loop.
PacingDelay == 4000

Recipes == {"A", "B"}
NoRecipe == "none"
Indices == 0..(MaxSteps - 1)

\* An image handle, with what it was generated for and by which component.
Image(r, k, by) == [recipe |-> r, index |-> k, by |-> by]
NoImage == Image("none", 0, "none")
EmptyImages == [k \in Indices |-> NoImage]

\* recipe.steps[k].instruction
Instruction(r, k) == <<r, k>>

\* recipe.steps.slice(0, k).map(s => s.instruction)
PreviousInstructions(r, k) == [j \in 1..k |-> Instruction(r, j - 1)]

\* What awaiting generateStepVisual gives: a handle, null, or a rejection
\* (instruction.replace throws before the try of line 205 when the step has
\* no instruction string).
Outcomes == {"url", "none", "rejected"}

\* One entry of a loop's trace: a call of generateStepVisual with its second
\* argument, its completion, a delay started, an index skipped.
Event(ev, k, context) == [ev |-> ev, index |-> k, context |-> context]

\* No cleanup at all: C12 must not hold of it.
CancelNone(runs) == runs

\* The cleanup of an effect (RecipeCard line 59, CookMode line 47) for
\* every run there is.
CancelAll(runs) == [k \in DOMAIN runs |-> [runs[k] EXCEPT !.isMounted = FALSE]]

\* Line 30: stepImages is the value of the render the effect ran in.
AlreadyHave(loop, j) == loop.snapshot[j] # NoImage

\* Lines 26-36: the loop from the test of index j up to the next await, or
\* to its end.
RECURSIVE RunLoop(_, _)
RunLoop(loop, j) ==
    IF ~(j < loop.n) \/ ~loop.isMounted
    THEN [loop EXCEPT !.i = j, !.pc = "done", !.delay = 0]
    ELSE IF AlreadyHave(loop, j)
    THEN RunLoop([loop EXCEPT !.trace = Append(@, Event("skip", j, <<>>))], j + 1)
    ELSE [loop EXCEPT
            !.i = j, !.pc = "request", !.delay = 0,
            !.trace = Append(@, Event("call", j, PreviousInstructions(loop.recipe, j)))]

\* Lines 21-23 and 56: a run of the effect for recipe r, in a render whose
\* stepImages is snapshot.
NewLoop(r, snapshot) ==
    RunLoop([recipe |-> r, n |-> numSteps[r], snapshot |-> snapshot,
             isMounted |-> TRUE, i |-> 0, pc |-> "request", trace |-> <<>>,
             outcome |-> "none yet", delay |-> 0], 0)

\* Line 45 for a request that gave an image only: C13 must not hold of it.
DelayFollowsImage(loop, outcome) ==
    loop.isMounted /\ loop.i < loop.n - 1 /\ outcome = "url"

\* Line 45, reached from line 39 and from the catch of line 42 alike.
DelayFollows(loop, outcome) == loop.isMounted /\ loop.i < loop.n - 1

\* Line 37 without the test of isMounted: C14 must not hold of it.
WritesResultUnmounted(loop, outcome) == outcome = "url"

\* Line 37.
WritesResult(loop, outcome) == loop.isMounted /\ outcome = "url"

\* CookMode line 19: { ...preloadedImages, ...localImages }.
CookImages(preloaded, local) ==
    [k \in Indices |-> IF local[k] # NoImage THEN local[k] ELSE preloaded[k]]

\* The requests of CookMode in flight are kept in one order: those of the
\* runs cleaned up by recipe and index, then the run of the latest render.
RunKey(run) ==
    (IF run.isMounted THEN 2 * MaxSteps ELSE 0)
      + (IF run.recipe = "A" THEN 0 ELSE MaxSteps) + run.index

RECURSIVE SortRuns(_)
SortRuns(runs) ==
    IF runs = <<>> THEN <<>>
    ELSE LET least == CHOOSE k \in DOMAIN runs :
                          \A j \in DOMAIN runs : RunKey(runs[k]) <= RunKey(runs[j])
             others == [j \in 1..(Len(runs) - 1) |->
                           IF j < least THEN runs[j] ELSE runs[j + 1]]
         IN  <<runs[least]>> \o SortRuns(others)

\* The effect of lines 26-48 if it started no request while a background
\* loop's request for the same step is pending: C20 must not hold of it.
CookEffectAwaitingLoop(runs, r, idx, preloaded, local, loading) ==
    LET cancelled == CancelAll(runs)
        run == [recipe |-> r, index |-> idx, isMounted |-> TRUE]
        pending == \E k \in DOMAIN loops :
                      /\ loops[k].pc = "request"
                      /\ loops[k].recipe = r
                      /\ loops[k].i = idx
    IN  IF CookImages(preloaded, local)[idx] # NoImage \/ pending
        THEN [runs |-> SortRuns(cancelled), loading |-> loading]
        ELSE IF loading
        THEN [runs |-> SortRuns(Append(cancelled, run)), loading |-> TRUE]
        ELSE [runs |-> SortRuns(cancelled
                                  \o <<[run EXCEPT !.isMounted = FALSE], run>>),
              loading |-> TRUE]

\* CookMode lines 26-48: the effect after a render of CookMode.  images is a
\* new object in every render, so every render cleans up the run before and
\* runs loadImages; setLoadingImage(true) changing the state renders again.
CookEffect(runs, r, idx, preloaded, local, loading) ==
    LET cancelled == CancelAll(runs)
        run == [recipe |-> r, index |-> idx, isMounted |-> TRUE]
    IN  IF CookImages(preloaded, local)[idx] # NoImage
        THEN [runs |-> SortRuns(cancelled), loading |-> loading]
        ELSE IF loading
        THEN [runs |-> SortRuns(Append(cancelled, run)), loading |-> TRUE]
        ELSE [runs |-> SortRuns(cancelled
                                  \o <<[run EXCEPT !.isMounted = FALSE], run>>),
              loading |-> TRUE]

\* CookMode rendered, or not there.
CookRendered(r, idx, preloaded, local, loading) ==
    IF isCookMode
    THEN LET e == CookEffect(cookRuns, r, idx, preloaded, local, loading)
         IN  /\ Len(e.runs) <= MaxCookRuns
             /\ cookRuns' = e.runs
             /\ loadingImage' = e.loading
    ELSE UNCHANGED <<cookRuns, loadingImage>>

CardInit ==
    /\ numSteps \in {n \in [Recipes -> 1..MaxSteps] : n["A"] = MaxSteps}
    /\ recipe = NoRecipe
    /\ stepImages = EmptyImages
    /\ loops = <<>>
    /\ isCookMode = FALSE
    /\ currentIndex = 0
    /\ localImages = EmptyImages
    /\ loadingImage = FALSE
    /\ cookRuns = <<>>

\* RecipeCard is mounted with recipe r (App.tsx line 124): lines 15-17, then
\* the effect of lines 20-60.
Mount(r) ==
    /\ recipe = NoRecipe
    /\ Len(loops) < MaxEffects
    /\ recipe' = r
    /\ stepImages' = EmptyImages
    /\ loops' = Append(loops, NewLoop(r, EmptyImages))
    /\ UNCHANGED <<numSteps, isCookMode, currentIndex, localImages,
                   loadingImage, cookRuns>>
    /\ UNCHANGED notCardVars

\* RecipeCard and what it renders are unmounted: the cleanups of line 59 and
\* of CookMode line 47 run, the state is dropped.
Teardown ==
    /\ recipe' = NoRecipe
    /\ stepImages' = EmptyImages
    /\ loops' = CancelAll(loops)
    /\ isCookMode' = FALSE
    /\ currentIndex' = 0
    /\ localImages' = EmptyImages
    /\ loadingImage' = FALSE
    /\ cookRuns' = SortRuns(CancelAll(cookRuns))

Unmount ==
    /\ recipe # NoRecipe
    /\ Teardown
    /\ UNCHANGED numSteps
    /\ UNCHANGED notCardVars

\* The prop recipe changes on the mounted card (line 60, [recipe]): the
\* cleanup of the effect before, then the effect again, whose stepImages is
\* the one of this render; setStepImages({}) renders once more.  CookMode,
\* when open, is rendered both times; its currentStep is undefined when the
\* new recipe is too short, and the render throws (CookMode line 101).
RecipeChanged(r) ==
    /\ recipe # NoRecipe
    /\ r # recipe
    /\ Len(loops) < MaxEffects
    /\ IF isCookMode /\ ~(currentIndex < numSteps[r])
       THEN Teardown
       ELSE /\ recipe' = r
            /\ stepImages' = EmptyImages
            /\ loops' = Append(CancelAll(loops), NewLoop(r, stepImages))
            /\ UNCHANGED <<isCookMode, currentIndex, localImages>>
            /\ IF isCookMode
               THEN LET e1 == CookEffect(cookRuns, r, currentIndex, stepImages,
                                         localImages, loadingImage)
                        e2 == CookEffect(e1.runs, r, currentIndex, EmptyImages,
                                         localImages, e1.loading)
                    IN  /\ Len(e2.runs) <= MaxCookRuns
                        /\ cookRuns' = e2.runs
                        /\ loadingImage' = e2.loading
               ELSE UNCHANGED <<cookRuns, loadingImage>>
    /\ UNCHANGED numSteps
    /\ UNCHANGED notCardVars

\* Lines 36-47: the request of loop k settles.
RequestDone(k, outcome) ==
    /\ k \in DOMAIN loops
    /\ loops[k].pc = "request"
    /\ LET loop == [loops[k] EXCEPT
                      !.trace = Append(@, Event("done", loops[k].i, <<>>)),
                      !.outcome = outcome]
           written == WritesResult(loop, outcome)
       IN  /\ stepImages' =
                IF written
                THEN [stepImages EXCEPT ![loop.i] = Image(loop.recipe, loop.i, "loop")]
                ELSE stepImages
           /\ loops' =
                [loops EXCEPT ![k] =
                    IF DelayFollows(loop, outcome)
                    THEN [loop EXCEPT !.pc = "delay", !.delay = PacingDelay,
                                      !.trace = Append(@, Event("delay", loop.i, <<>>))]
                    ELSE RunLoop(loop, loop.i + 1)]
           /\ IF written
              THEN CookRendered(recipe, currentIndex, stepImages', localImages,
                                loadingImage)
              ELSE UNCHANGED <<cookRuns, loadingImage>>
    /\ UNCHANGED <<numSteps, recipe, isCookMode, currentIndex, localImages>>
    /\ UNCHANGED notCardVars

\* Lines 46 and 26: the 4 seconds of loop k are over.
DelayDone(k) ==
    /\ k \in DOMAIN loops
    /\ loops[k].pc = "delay"
    /\ loops' = [loops EXCEPT ![k] = RunLoop(loops[k], loops[k].i + 1)]
    /\ UNCHANGED <<numSteps, recipe, stepImages, isCookMode, currentIndex,
                   localImages, loadingImage, cookRuns>>
    /\ UNCHANGED notCardVars

\* RecipeCard line 94: CookMode is mounted (CookMode lines 14-16).
OpenCookMode ==
    /\ recipe # NoRecipe
    /\ ~isCookMode
    /\ isCookMode' = TRUE
    /\ currentIndex' = 0
    /\ localImages' = EmptyImages
    /\ LET e == CookEffect(cookRuns, recipe, 0, stepImages, EmptyImages, FALSE)
       IN  /\ Len(e.runs) <= MaxCookRuns
           /\ cookRuns' = e.runs
           /\ loadingImage' = e.loading
    /\ UNCHANGED <<numSteps, recipe, stepImages, loops>>
    /\ UNCHANGED notCardVars

\* onClose (RecipeCard line 68): CookMode is unmounted.
CloseCookMode ==
    /\ isCookMode
    /\ isCookMode' = FALSE
    /\ currentIndex' = 0
    /\ localImages' = EmptyImages
    /\ loadingImage' = FALSE
    /\ cookRuns' = SortRuns(CancelAll(cookRuns))
    /\ UNCHANGED <<numSteps, recipe, stepImages, loops>>
    /\ UNCHANGED notCardVars

\* CookMode lines 50-52.
handleNext ==
    /\ isCookMode
    /\ currentIndex # numSteps[recipe] - 1
    /\ currentIndex' = currentIndex + 1
    /\ CookRendered(recipe, currentIndex', stepImages, localImages, loadingImage)
    /\ UNCHANGED <<numSteps, recipe, stepImages, loops, isCookMode, localImages>>
    /\ UNCHANGED notCardVars

\* CookMode lines 54-56.
handlePrev ==
    /\ isCookMode
    /\ currentIndex # 0
    /\ currentIndex' = currentIndex - 1
    /\ CookRendered(recipe, currentIndex', stepImages, localImages, loadingImage)
    /\ UNCHANGED <<numSteps, recipe, stepImages, loops, isCookMode, localImages>>
    /\ UNCHANGED notCardVars

\* CookMode lines 37-41: the request of run k of loadImages settles.  A run
\* whose isMounted holds is the run of the latest render.
LoadImagesDone(k, outcome) ==
    /\ k \in DOMAIN cookRuns
    /\ LET run == cookRuns[k]
           rest == [j \in 1..(Len(cookRuns) - 1) |->
                       IF j < k THEN cookRuns[j] ELSE cookRuns[j + 1]]
       IN  IF run.isMounted /\ outcome # "rejected"
           THEN /\ localImages' =
                     IF outcome = "url"
                     THEN [localImages EXCEPT
                             ![run.index] = Image(run.recipe, run.index, "cook")]
                     ELSE localImages
                /\ LET e == CookEffect(rest, recipe, currentIndex, stepImages,
                                       localImages', FALSE)
                   IN  /\ Len(e.runs) <= MaxCookRuns
                       /\ cookRuns' = e.runs
                       /\ loadingImage' = e.loading
           ELSE /\ cookRuns' = rest
                /\ UNCHANGED <<localImages, loadingImage>>
    /\ UNCHANGED <<numSteps, recipe, stepImages, loops, isCookMode, currentIndex>>
    /\ UNCHANGED notCardVars

\* The life of RecipeCard and of its background loops.  CookMode reads
\* stepImages and writes neither it nor the loops.
CardNext ==
    \/ \E r \in Recipes : Mount(r)
    \/ Unmount
    \/ \E r \in Recipes : RecipeChanged(r)
    \/ \E k \in 1..MaxEffects, outcome \in Outcomes : RequestDone(k, outcome)
    \/ \E k \in 1..MaxEffects : DelayDone(k)

\* A mounted card, its background loop and CookMode over it.
CookNext ==
    \/ \E r \in Recipes : Mount(r)
    \/ \E k \in 1..MaxEffects, outcome \in Outcomes : RequestDone(k, outcome)
    \/ \E k \in 1..MaxEffects : DelayDone(k)
    \/ OpenCookMode
    \/ CloseCookMode
    \/ handleNext
    \/ handlePrev
    \/ \E k \in 1..MaxCookRuns, outcome \in Outcomes : LoadImagesDone(k, outcome)

(***************************************************************************)
(* TutorialPlayer: narrated playback.  A render and the effects it commits *)
(* are one step.                                                           *)
(***************************************************************************)

\* The most runs of loadContent suspended at once.
MaxContentRuns == 2

\* The most requests of preloadNext in flight at once.
MaxPreloads == 1

\* The most timers of handleAudioEnded pending at once.
MaxTimers == 2

\* TutorialPlayer line 109: the milliseconds from the end of a step's audio
\* to the next step.
NarrationDelay == 1500

NoUrl == "none"

\* TutorialPlayer is mounted over n steps (RecipeCard lines 73-80, lines
\* 14-24), before its effects.
NewPlayer(n, preloaded) ==
    [n |-> n, isMounted |-> TRUE, currentIndex |-> 0, audioUrl |-> NoUrl,
     imageUrl |-> NoImage, isPlaying |-> TRUE, isLoading |-> TRUE,
     localImageCache |-> EmptyImages, preloadedImages |-> preloaded,
     audio |-> "none"]

\* Line 70 (and line 39): preloadedImages[k] || localImageCache[k].
Cached(p, k) ==
    IF p.preloadedImages[k] # NoImage THEN p.preloadedImages[k]
    ELSE p.localImageCache[k]

\* currentStep is steps[currentIndex]: undefined past the last step.
HasCurrentStep(p) == p.currentIndex < p.n

\* Lines 34-55: the effect preloadNext after a render in which currentIndex,
\* preloadedImages or localImageCache changed.
PreloadEffect(p, requests) ==
    LET nextIndex == p.currentIndex + 1
    IN  IF nextIndex < p.n /\ Cached(p, nextIndex) = NoImage
        THEN Append(requests, nextIndex)
        ELSE requests

\* The effect of lines 59-93 without the cleanup of line 92 for the run
\* before: C24 must not hold of it.
ContentEffectWithoutCleanup(p, runs) ==
    LET url == IF HasCurrentStep(p) THEN Cached(p, p.currentIndex) ELSE NoImage
        run == [index |-> p.currentIndex, active |-> TRUE,
                stage |-> IF url = NoImage THEN "image" ELSE "audio"]
    IN  [player |-> [p EXCEPT !.isLoading = TRUE, !.audioUrl = NoUrl,
                              !.imageUrl = url, !.audio = "none"],
         runs |-> IF HasCurrentStep(p) THEN Append(runs, run) ELSE runs]

\* Lines 59-93: the effect loadContent after such a render: the cleanup of
\* the run before, the resets of lines 61-66, and loadContent up to its
\* first await.  Past the last step line 75 throws in loadContent.
ContentEffect(p, runs) ==
    LET cancelled == [k \in DOMAIN runs |-> [runs[k] EXCEPT !.active = FALSE]]
        url == IF HasCurrentStep(p) THEN Cached(p, p.currentIndex) ELSE NoImage
        run == [index |-> p.currentIndex, active |-> TRUE,
                stage |-> IF url = NoImage THEN "image" ELSE "audio"]
    IN  [player |-> [p EXCEPT !.isLoading = TRUE, !.audioUrl = NoUrl,
                              !.imageUrl = url, !.audio = "none"],
         runs |-> IF HasCurrentStep(p) THEN Append(cancelled, run) ELSE cancelled]

\* The runs of loadContent are kept in one order: the cancelled ones by
\* stage and index, then the active one.
ContentKey(run) ==
    (IF run.active THEN 2 * (MaxSteps + MaxTimers) ELSE 0)
      + (IF run.stage = "image" THEN 0 ELSE MaxSteps + MaxTimers) + run.index

RECURSIVE SortContent(_)
SortContent(runs) ==
    IF runs = <<>> THEN <<>>
    ELSE LET least == CHOOSE k \in DOMAIN runs :
                          \A j \in DOMAIN runs :
                              ContentKey(runs[k]) <= ContentKey(runs[j])
             others == [j \in 1..(Len(runs) - 1) |->
                           IF j < least THEN runs[j] ELSE runs[j + 1]]
         IN  <<runs[least]>> \o SortContent(others)

\* The player unmounted: the cleanups of lines 30 and 92.
Closed(p) == [p EXCEPT !.isMounted = FALSE, !.audio = "none"]

\* A render after currentIndex, preloadedImages or localImageCache changed
\* to p, and its effects.  The render itself throws at line 170 when there
\* is no current step and the player is not loading, which unmounts it.
Rendered(p) ==
    IF ~HasCurrentStep(p) /\ ~p.isLoading
    THEN /\ player' = Closed(p)
         /\ contentRuns' =
               [k \in DOMAIN contentRuns |-> [contentRuns[k] EXCEPT !.active = FALSE]]
         /\ UNCHANGED preloads
    ELSE LET e == ContentEffect(p, contentRuns)
             requests == PreloadEffect(p, preloads)
         IN  /\ Len(e.runs) <= MaxContentRuns
             /\ Len(requests) <= MaxPreloads
             /\ player' = e.player
             /\ contentRuns' = SortContent(e.runs)
             /\ preloads' = requests

\* Lines 96-100: the effect after a render in which isLoading, audioUrl or
\* isPlaying changed; play() may be refused (line 98).
AutoPlay(p, allowed) ==
    IF ~p.isLoading /\ p.audioUrl # NoUrl /\ p.isPlaying /\ allowed
    THEN [p EXCEPT !.audio = "playing"]
    ELSE p

Without(seq, k) ==
    [j \in 1..(Len(seq) - 1) |-> IF j < k THEN seq[j] ELSE seq[j + 1]]

PlayerInit ==
    /\ \E n \in 1..MaxSteps, m \in 0..MaxSteps :
          LET preloaded == [k \in Indices |->
                               IF k < m /\ k < n THEN Image("A", k, "loop")
                               ELSE NoImage]
          IN  /\ m <= n
              /\ player = ContentEffect(NewPlayer(n, preloaded), <<>>).player
              /\ contentRuns = ContentEffect(NewPlayer(n, preloaded), <<>>).runs
              /\ preloads = PreloadEffect(NewPlayer(n, preloaded), <<>>)
    /\ timers = <<>>
    /\ playerLast = "mount"

\* The parent's background loop wrote the image of step k into stepImages
\* (RecipeCard lines 38 and 78): preloadedImages changes.
PreloadedArrives(k) ==
    /\ player.isMounted
    /\ k < player.n
    /\ player.preloadedImages[k] = NoImage
    /\ Rendered([player EXCEPT !.preloadedImages[k] = Image("A", k, "loop")])
    /\ playerLast' = "preloaded"
    /\ UNCHANGED timers
    /\ UNCHANGED notPlayerVars

\* Lines 45-48: a request of preloadNext settles.
PreloadDone(k, outcome) ==
    /\ k \in DOMAIN preloads
    /\ playerLast' = "preloadDone"
    /\ IF outcome = "url" /\ player.isMounted
       THEN LET p == [player EXCEPT
                        !.localImageCache[preloads[k]] =
                            Image("A", preloads[k], "preloadNext")]
                e == ContentEffect(p, contentRuns)
                requests == PreloadEffect(p, Without(preloads, k))
            IN  /\ Len(e.runs) <= MaxContentRuns
                /\ Len(requests) <= MaxPreloads
                /\ player' = e.player
                /\ contentRuns' = SortContent(e.runs)
                /\ preloads' = requests
       ELSE /\ preloads' = Without(preloads, k)
            /\ UNCHANGED <<player, contentRuns>>
    /\ UNCHANGED timers
    /\ UNCHANGED notPlayerVars

\* Lines 75-78: the image request of run k of loadContent settles; line 82
\* then asks for the audio, whether or not the run is active.
ContentImageDone(k, outcome) ==
    /\ k \in DOMAIN contentRuns
    /\ contentRuns[k].stage = "image"
    /\ player' =
          IF contentRuns[k].active
          THEN [player EXCEPT
                  !.imageUrl = IF outcome = "url"
                               THEN Image("A", contentRuns[k].index, "loadContent")
                               ELSE NoImage]
          ELSE player
    /\ contentRuns' = SortContent([contentRuns EXCEPT ![k].stage = "audio"])
    /\ playerLast' = "imageDone"
    /\ UNCHANGED <<preloads, timers>>
    /\ UNCHANGED notPlayerVars

\* Lines 82-87: the audio request of run k settles, and the effect of lines
\* 96-100 runs.
ContentAudioDone(k, outcome, allowed) ==
    /\ k \in DOMAIN contentRuns
    /\ contentRuns[k].stage = "audio"
    /\ player' =
          IF contentRuns[k].active
          THEN AutoPlay([player EXCEPT
                           !.audioUrl = outcome, !.isLoading = FALSE,
                           !.audio = IF outcome = NoUrl THEN "none" ELSE "paused"],
                        allowed)
          ELSE player
    /\ contentRuns' = Without(contentRuns, k)
    /\ playerLast' = "audioDone"
    /\ UNCHANGED <<preloads, timers>>
    /\ UNCHANGED notPlayerVars

\* Lines 106-108: what the timer's callback does.
Advance(p) ==
    IF p.isMounted THEN [p EXCEPT !.currentIndex = @ + 1] ELSE p

\* Lines 102-113: the audio element fires ended.
handleAudioEnded ==
    /\ player.audio = "playing"
    /\ IF player.currentIndex # player.n - 1 /\ player.isPlaying
       THEN /\ Len(timers) < MaxTimers
            /\ timers' = Append(timers, NarrationDelay)
            /\ player' = [player EXCEPT !.audio = "ended"]
       ELSE /\ player' = [player EXCEPT !.audio = "ended", !.isPlaying = FALSE]
            /\ UNCHANGED timers
    /\ playerLast' = "ended"
    /\ UNCHANGED <<contentRuns, preloads>>
    /\ UNCHANGED notPlayerVars

\* Lines 105-109: a timer of handleAudioEnded fires.
TimerFires(k) ==
    /\ k \in DOMAIN timers
    /\ timers' = Without(timers, k)
    /\ playerLast' = "timer"
    /\ IF Advance(player) # player
       THEN Rendered(Advance(player))
       ELSE UNCHANGED <<player, contentRuns, preloads>>
    /\ UNCHANGED notPlayerVars

\* Lines 115-122, and the effect of lines 96-100 after it; play() in a
\* click is not refused.
togglePlay ==
    /\ player.isMounted
    /\ player' =
          IF player.isPlaying
          THEN [player EXCEPT
                  !.isPlaying = FALSE,
                  !.audio = IF @ = "playing" THEN "paused" ELSE @]
          ELSE AutoPlay([player EXCEPT
                           !.isPlaying = TRUE,
                           !.audio = IF @ \in {"paused", "ended"}
                                     THEN "playing" ELSE @],
                        TRUE)
    /\ playerLast' = "togglePlay"
    /\ UNCHANGED <<contentRuns, preloads, timers>>
    /\ UNCHANGED notPlayerVars

\* Line 210: a segment of the progress bar is clicked.
SeekTo(idx) ==
    /\ player.isMounted
    /\ idx < player.n
    /\ idx # player.currentIndex
    /\ Rendered([player EXCEPT !.currentIndex = idx])
    /\ playerLast' = "seek"
    /\ UNCHANGED timers
    /\ UNCHANGED notPlayerVars

\* onClose (RecipeCard line 77): the player is unmounted.
ClosePlayer ==
    /\ player.isMounted
    /\ player' = Closed(player)
    /\ contentRuns' =
          [k \in DOMAIN contentRuns |-> [contentRuns[k] EXCEPT !.active = FALSE]]
    /\ playerLast' = "close"
    /\ UNCHANGED <<preloads, timers>>
    /\ UNCHANGED notPlayerVars

PlayerNext ==
    \/ \E k \in Indices : PreloadedArrives(k)
    \/ \E k \in 1..MaxPreloads, outcome \in {"url", "none"} : PreloadDone(k, outcome)
    \/ \E k \in 1..MaxContentRuns, outcome \in {"url", "none"} :
          ContentImageDone(k, outcome)
    \/ \E k \in 1..MaxContentRuns, outcome \in {"audio", NoUrl}, allowed \in BOOLEAN :
          ContentAudioDone(k, outcome, allowed)
    \/ handleAudioEnded
    \/ \E k \in 1..MaxTimers : TimerFires(k)
    \/ togglePlay
    \/ \E idx \in Indices : SeekTo(idx)
    \/ ClosePlayer

(***************************************************************************)
(* App: the search form and handleSearch                                   *)
(***************************************************************************)

\* The longest query typed.
MaxQueryLen == 2

\* The most submissions of the form followed.
MaxSearches == 3

Queries == StringsUpTo({" ", "a"}, MaxQueryLen)

\* String.prototype.trim, for the white space there is in Queries.
RECURSIVE TrimStart(_)
TrimStart(s) ==
    IF s # <<>> /\ Head(s) = " " THEN TrimStart(Tail(s)) ELSE s

RECURSIVE TrimEnd(_)
TrimEnd(s) ==
    IF s # <<>> /\ s[Len(s)] = " " THEN TrimEnd(SubSeq(s, 1, Len(s) - 1)) ELSE s

Trim(s) == TrimEnd(TrimStart(s))

NoError == "none"

\* Line 28.
SorryMessage ==
    "Sorry, we couldn't cook up a recipe for that. Please try a different request."

\* The calls of generateRecipe: the query of the last one, how it settled,
\* the count of those that threw (at most 1 is remembered) and of those in flight.
NoRequest == [query |-> <<>>, state |-> "none", failures |-> 0, inFlight |-> 0]

\* Lines 18-21 without setRecipe(null): C16 must not hold of it.
SearchingKeepsRecipe(a) ==
    [a EXCEPT !.loading = TRUE, !.error = NoError, !.hasSearched = TRUE]

\* Lines 18-21.
Searching(a) ==
    [a EXCEPT !.loading = TRUE, !.error = NoError, !.recipe = NoRecipe,
              !.hasSearched = TRUE]

\* Lines 8-12.
AppInit ==
    /\ app = [query |-> <<>>, recipe |-> NoRecipe, loading |-> FALSE,
              error |-> NoError, hasSearched |-> FALSE]
    /\ request = NoRequest
    /\ searches = 0

\* Lines 83 and 88 if the controls were never disabled: C25 must not hold
\* of it.
DisabledNever(a) == FALSE

\* Lines 83 and 88: the input and the submit control are disabled while
\* loading (the submit control also for a blank query, which line 16
\* tests again).
Disabled(a) == a.loading

\* Line 78 (the input is disabled while loading, line 83) and line 101.
SetQuery(q) ==
    /\ ~Disabled(app)
    /\ q # app.query
    /\ app' = [app EXCEPT !.query = q]
    /\ UNCHANGED <<request, searches>>
    /\ UNCHANGED notAppVars

\* Lines 14-24: the form is submitted (its controls are disabled while
\* loading), up to the await.
handleSearch ==
    /\ ~Disabled(app)
    /\ searches < MaxSearches
    /\ searches' = searches + 1
    /\ IF Trim(app.query) = <<>>
       THEN UNCHANGED <<app, request>>
       ELSE /\ app' = Searching(app)
            /\ request' = [request EXCEPT !.query = app.query, !.state = "pending",
                                          !.inFlight = @ + 1]
    /\ UNCHANGED notAppVars

\* Lines 24-25 and 30: generateRecipe returned.
GenerateRecipeReturned(r) ==
    /\ request.inFlight > 0
    /\ app' = [app EXCEPT !.recipe = r, !.loading = FALSE]
    /\ request' = [request EXCEPT !.state = "fulfilled", !.inFlight = @ - 1]
    /\ UNCHANGED searches
    /\ UNCHANGED notAppVars

\* Lines 26-30: generateRecipe threw.
GenerateRecipeThrew ==
    /\ request.inFlight > 0
    /\ app' = [app EXCEPT !.error = SorryMessage, !.loading = FALSE]
    /\ request' = [request EXCEPT !.state = "rejected", !.failures = 1,
                                  !.inFlight = @ - 1]
    /\ UNCHANGED searches
    /\ UNCHANGED notAppVars

\* Lines 128-132: Start Over, shown with the recipe.
StartOver ==
    /\ app.recipe # NoRecipe
    /\ ~app.loading
    /\ app' = [app EXCEPT !.recipe = NoRecipe, !.query = <<>>,
                          !.hasSearched = FALSE]
    /\ UNCHANGED <<request, searches>>
    /\ UNCHANGED notAppVars

AppNext ==
    \/ \E q \in Queries : SetQuery(q)
    \/ handleSearch
    \/ \E r \in Recipes : GenerateRecipeReturned(r)
    \/ GenerateRecipeThrew
    \/ StartOver

(***************************************************************************)
(* generateStepVisual: the prompt (lines 177-203)                          *)
(***************************************************************************)

\* Line 191: the length from which the current instruction is cut.
ShortLength == 150

\* How far below and above ShortLength the instructions' lengths go.
MaxOver == 2

\* The most previous instructions handed over.
MaxPrev == 2

\* Line 188, up to the joined instructions.
ContextHeading ==
    <<"P", "R", "E", "V", "I", "O", "U", "S", " ", "S", "T", "E",
    "P", "S", " ", "C", "O", "N", "T", "E", "X", "T", " ", "(",
    "T", "h", "e", " ", "d", "i", "s", "h", " ", "s", "t", "a",
    "t", "e", " ", "s", "o", " ", "f", "a", "r", ")", ":", " ">>

\* Line 189.
StartOfRecipe ==
    <<"S", "t", "a", "r", "t", " ", "o", "f", " ", "r", "e", "c",
    "i", "p", "e", ".">>

Ellipsis == <<".", ".", ".">>

\* A run of k plain characters, as one piece.
Filler(k) ==
    [kind |-> "lit", s |-> [j \in 1..k |-> "x"], name |-> <<>>, quantity |-> <<>>]

PromptAnns == {Ann(<<"a">>, <<"q">>), Ann(<<"b", "c">>, <<"q", "r">>)}

FillerLengths == (ShortLength - MaxOver - 2)..(ShortLength + MaxOver)

\* Current instructions, as the pieces they are composed of: their lengths
\* lie on both sides of ShortLength, before and after cleanText.
PromptInstructions ==
    {<<>>, <<Lit("x")>>}
        \cup {<<Filler(k)>> : k \in FillerLengths}
        \cup {<<Filler(k), a>> : k \in FillerLengths, a \in PromptAnns}
        \cup {<<a, Filler(k)>> : k \in FillerLengths, a \in PromptAnns}

\* Previous instructions: short ones and one of more than ShortLength
\* characters.
PreviousTexts ==
    {<<Lit("x")>>, <<Ann(<<"a">>, <<"q">>), Lit("x")>>,
     <<Filler(ShortLength + 1), Ann(<<"b", "c">>, <<"q">>)>>}

PreviousLists == UNION {[1..n -> PreviousTexts] : n \in 0..MaxPrev}

\* Array.prototype.join.
RECURSIVE Join(_, _)
Join(strings, separator) ==
    IF strings = <<>> THEN <<>>
    ELSE IF Len(strings) = 1 THEN strings[1]
    ELSE strings[1] \o separator \o Join(Tail(strings), separator)

\* Line 186.
cleanPrevious(ts) == [k \in 1..Len(ts) |-> cleanText(ts[k])]

\* Lines 187-189.
contextStr(ts) ==
    IF Len(cleanPrevious(ts)) > 0
    THEN ContextHeading \o Join(cleanPrevious(ts), <<";", " ">>) \o <<".">>
    ELSE StartOfRecipe

\* String.prototype.substring, for 0 <= start <= end: both are clamped to
\* the length.
substring(s, start, end) ==
    SubSeq(s, IF start > Len(s) THEN Len(s) + 1 ELSE start + 1,
              IF end > Len(s) THEN Len(s) ELSE end)

\* Line 191 with the length of instruction for that of cleanInstruction:
\* C18 must not hold of it.
shortInstructionOfRawLength(t) ==
    LET cleanInstruction == cleanText(t)
    IN  IF Len(t) > ShortLength
        THEN substring(cleanInstruction, 0, ShortLength) \o Ellipsis
        ELSE cleanInstruction

\* Lines 183 and 191.
shortInstruction(t) ==
    LET cleanInstruction == cleanText(t)
    IN  IF Len(cleanInstruction) > ShortLength
        THEN substring(cleanInstruction, 0, ShortLength) \o Ellipsis
        ELSE cleanInstruction

NoPrompt == [built |-> FALSE, action |-> <<>>, context |-> <<>>]

\* generateStepVisual is called.
PromptInit ==
    /\ instruction \in PromptInstructions
    /\ previousInstructions \in PreviousLists
    /\ prompt = NoPrompt

\* Lines 183-203: the prompt is the fixed text of lines 193-203 around
\* shortInstruction and contextStr.
BuildPrompt ==
    /\ ~prompt.built
    /\ prompt' = [built |-> TRUE,
                  action |-> shortInstruction(Flatten(instruction)),
                  context |-> contextStr([k \in 1..Len(previousInstructions) |->
                                             Flatten(previousInstructions[k])])]
    /\ UNCHANGED <<instruction, previousInstructions>>
    /\ UNCHANGED notPromptVars

PromptNext == BuildPrompt

(***************************************************************************)
(* Specifications.  Each component is checked on its own, the others idle. *)
(***************************************************************************)

RetryIdle ==
    /\ caller = "withRetry" /\ retries = DefaultRetries
    /\ baseDelay = DefaultBaseDelay /\ i = 0 /\ pc = "idle" /\ calls = 0
    /\ waits = <<>> /\ log = <<>> /\ lastError = NoErr /\ lastValue = None
    /\ lastResponse = NoResponse /\ settled = Pending /\ opResult = Pending

MarkupIdle ==
    /\ segs = <<>> /\ text = <<>> /\ rendered = <<>> /\ cleaned = <<>>
    /\ spoken = <<>> /\ ran = "idle"

WavIdle == pcmData = <<>> /\ sampleRate = 24000 /\ wav = <<0>>

CardIdle ==
    /\ numSteps = [r \in Recipes |-> 1] /\ recipe = NoRecipe
    /\ stepImages = EmptyImages /\ loops = <<>> /\ isCookMode = FALSE
    /\ currentIndex = 0 /\ localImages = EmptyImages /\ loadingImage = FALSE
    /\ cookRuns = <<>>

PlayerIdle ==
    /\ player = "idle" /\ contentRuns = <<>> /\ preloads = <<>>
    /\ timers = <<>> /\ playerLast = "idle"

AppIdle == app = "idle" /\ request = "idle" /\ searches = 0

PromptIdle ==
    /\ instruction = <<>> /\ previousInstructions = <<>> /\ prompt = "idle"

\* withRetry and the exported operations that call it.
Init ==
    /\ RetryInit /\ MarkupIdle /\ WavIdle /\ CardIdle /\ PlayerIdle /\ AppIdle
    /\ PromptIdle
Next == RetryNext
Spec == Init /\ [][Next]_vars

\* The three markup transforms on instruction texts.
MarkupSpecInit ==
    /\ MarkupInit /\ RetryIdle /\ WavIdle /\ CardIdle /\ PlayerIdle /\ AppIdle
    /\ PromptIdle
MarkupSpecNext == MarkupNext
MarkupSpec == MarkupSpecInit /\ [][MarkupSpecNext]_vars

\* pcmToWav on PCM inputs.
WavSpecInit ==
    /\ WavInit /\ RetryIdle /\ MarkupIdle /\ CardIdle /\ PlayerIdle /\ AppIdle
    /\ PromptIdle
WavSpecNext == WavNext
WavSpec == WavSpecInit /\ [][WavSpecNext]_vars

\* RecipeCard's background loops over mounts, recipe changes and unmounts.
CardSpecInit ==
    /\ CardInit /\ RetryIdle /\ MarkupIdle /\ WavIdle /\ PlayerIdle /\ AppIdle
    /\ PromptIdle
CardSpecNext == CardNext
CardSpec == CardSpecInit /\ [][CardSpecNext]_vars

\* The background loop of a mounted card and CookMode's on-demand loads.
CookSpecInit == CardSpecInit
CookSpecNext == CookNext
CookSpec == CookSpecInit /\ [][CookSpecNext]_vars

\* TutorialPlayer over the steps of one recipe.
PlayerSpecInit ==
    /\ PlayerInit /\ RetryIdle /\ MarkupIdle /\ WavIdle /\ CardIdle /\ AppIdle
    /\ PromptIdle
PlayerSpecNext == PlayerNext
PlayerSpec == PlayerSpecInit /\ [][PlayerSpecNext]_vars

\* App's search form.
AppSpecInit ==
    /\ AppInit /\ RetryIdle /\ MarkupIdle /\ WavIdle /\ CardIdle /\ PlayerIdle
    /\ PromptIdle
AppSpecNext == AppNext
AppSpec == AppSpecInit /\ [][AppSpecNext]_vars

\* generateStepVisual's prompt.
PromptSpecInit ==
    /\ PromptInit /\ RetryIdle /\ MarkupIdle /\ WavIdle /\ CardIdle /\ PlayerIdle
    /\ AppIdle
PromptSpecNext == PromptNext
PromptSpec == PromptSpecInit /\ [][PromptSpecNext]_vars

(***************************************************************************)
(* Claims about withRetry (specification Spec)                             *)
(***************************************************************************)

Last(seq) == seq[Len(seq)]
Count(seq, x) == Cardinality({k \in 1..Len(seq) : seq[k] = x})
Terminal == pc \in {"returned", "thrown"}

\* C1: withRetry with max_attempts >= 1 invokes op at most max_attempts
\* times; it returns the value of the first invocation that succeeds, which
\* is the last invocation it makes; when it fails, the error it raises is
\* the error of the last invocation of op.
C1_RetryContract ==
    retries >= 1 =>
        /\ calls <= retries
        /\ Count(log, "call") = calls
        /\ \A k \in 1..Len(log) : log[k] = "ok" => k = Len(log)
        /\ pc = "returned" <=> (log # <<>> /\ Last(log) = "ok")
        /\ pc = "returned" => settled = Returned(lastValue)
        /\ pc = "thrown" =>
              /\ Last(log) = "fail"
              /\ lastError # NoErr
              /\ settled = Thrown(lastError)

\* A second attempt fails with an error that is thrown on.
C1_Witness ==
    /\ retries = DefaultRetries /\ calls = 2 /\ pc = "thrown"
    /\ settled = Thrown(lastError) /\ lastError \in UpstreamErrors

\* C2: after a rate-limited failure of attempt i that is not the last, one
\* wait of baseDelay * 2^i is made before attempt i + 1: the k-th wait is
\* baseDelay * 2^(k-1), every invocation but the first directly follows a
\* wait, every wait directly follows a failure; with 3 attempts and base
\* 2000, success on the third attempt comes after waits of 2000 and 4000
\* and no other, and its value is returned.
C2_BackoffWaits ==
    /\ \A k \in 1..Len(waits) : waits[k] = baseDelay * (2 ^ (k - 1))
    /\ Count(log, "wait") = Len(waits)
    /\ \A k \in 1..Len(log) :
          /\ (log[k] = "call" /\ k > 1) => log[k - 1] = "wait"
          /\ log[k] = "wait" => (k > 1 /\ log[k - 1] = "fail")
    /\ pc = "delay" => (Len(waits) = i + 1 /\ calls = i + 1 /\ i < retries - 1)
    /\ pc = "awaiting" => (Len(waits) = i /\ calls = i + 1)
    /\ (retries = 3 /\ baseDelay = 2000 /\ calls = 3 /\ pc = "returned") =>
          (waits = <<2000, 4000>> /\ settled = Returned(lastValue))

C2_Witness ==
    /\ retries = 3 /\ baseDelay = 2000 /\ calls = 3 /\ pc = "returned"
    /\ waits = <<2000, 4000>> /\ settled = Returned("v2")

\* The claims' own reading of "rate-limited": status 429, code 429, or a
\* message that has "429" or "quota" in it somewhere.
HasAt(m, k, word) ==
    /\ k + Len(word) - 1 <= Len(m)
    /\ \A j \in 1..Len(word) : m[k + j - 1] = word[j]
Contains(message, word) ==
    /\ message # Absent
    /\ \E k \in 1..Len(message[1]) : HasAt(message[1], k, word)
RateLimited(e) ==
    \/ e.status = <<429>>
    \/ e.code = <<429>>
    \/ Contains(e.message, <<"4", "2", "9">>)
    \/ Contains(e.message, <<"q", "u", "o", "t", "a">>)

\* C3: a failure that is not rate-limited, and any failure of the final
\* attempt, is thrown on at once: no wait is started, and op is not invoked
\* again.
C3_PropagatesAtOnce ==
    [][ /\ (/\ pc = "awaiting"
            /\ lastError' # NoErr
            /\ (~RateLimited(lastError') \/ i = retries - 1))
           => /\ pc' = "thrown"
              /\ settled' = Thrown(lastError')
              /\ opResult' = OpCompletion(caller, Thrown(lastError'))
              /\ waits' = waits
              /\ calls' = calls
        /\ pc = "thrown" => (pc' = "thrown" /\ calls' = calls /\ waits' = waits)
      ]_vars

\* A rate-limited failure of the final attempt has been thrown on.
C3_Witness ==
    /\ pc = "thrown" /\ retries = DefaultRetries /\ calls = retries
    /\ RateLimited(lastError) /\ settled = Thrown(lastError)
    /\ Len(waits) = retries - 1

\* C4: an error is taken as rate-limited (a failure of an attempt that is
\* not the last is followed by a wait) if and only if its status is 429, or
\* its code is 429, or its message contains "429" or contains "quota";
\* every other error is thrown on.
C4_Classification ==
    /\ pc = "delay" => RateLimited(lastError)
    /\ (pc = "thrown" /\ lastError # NoErr /\ calls < retries)
          => ~RateLimited(lastError)
    /\ (pc = "thrown" /\ lastError # NoErr /\ calls < retries) =>
          /\ lastError.status # <<429>> /\ lastError.code # <<429>>
    /\ (lastError # NoErr /\ calls < retries /\ lastError.status # <<429>>
          /\ lastError.code # <<429>>
          /\ lastError.message \in {Absent, Some(<<"Q", "u", "o", "t", "a">>)})
          => pc = "thrown"

\* An error whose message is "Quota" is thrown on from a first attempt.
C4_Witness ==
    /\ pc = "thrown" /\ calls = 1 /\ retries = DefaultRetries
    /\ lastError.message = Some(<<"Q", "u", "o", "t", "a">>)
    /\ lastError.status = Some(500)

(***************************************************************************)
(* Claims about the exported operations (specification Spec)               *)
(***************************************************************************)

EmptyResult(c) == IF c = "generateLeftoverSuggestions" THEN "[]" ELSE None

\* C5: none of the four auxiliary operations throws: when withRetry throws
\* (an error of the upstream request or of the handling of its response),
\* and when the response holds no payload, leftovers returns the empty
\* sequence and the image and audio operations return null.
C5_BestEffort ==
    caller \in AuxiliaryOps =>
        /\ opResult.kind # "thrown"
        /\ Terminal <=> opResult.kind = "returned"
        /\ pc = "thrown" => opResult = Returned(EmptyResult(caller))
        /\ (pc = "returned" /\ lastResponse.payload \in {"empty", "noInlineData"})
              => opResult = Returned(EmptyResult(caller))
        /\ (pc = "returned"
              /\ lastResponse.payload \in {"conforming", "inlineData", "pcm"})
              => (opResult = settled /\ opResult.value # EmptyResult(caller))

\* generateStepAudio returns null after atob threw.
C5_Witness ==
    /\ caller = "generateStepAudio" /\ pc = "thrown"
    /\ lastError \in AtobErrors /\ settled = Thrown(lastError)
    /\ opResult = Returned(None)

\* C17: an auxiliary operation makes at most 3 upstream requests.  When a
\* request is rejected with a rate-limited error, the operation waits and
\* asks again if it was the first or the second request, and after the
\* third it returns its empty result: every request having failed so, there
\* were exactly 3, separated by waits of 2000 ms and of 4000 ms.  When the
\* first request is rejected with an error that is not rate-limited, or is
\* answered without a payload, the operation ends with its empty result
\* after that 1 request, without a wait.
C17_AuxiliaryRequests ==
    caller \in AuxiliaryOps =>
        /\ calls <= 3
        /\ (lastResponse.kind = "rejected" /\ RateLimited(lastResponse.error)) =>
              IF calls < 3
              THEN pc \in {"delay", "loop"} /\ Len(waits) = calls
              ELSE /\ pc = "thrown"
                   /\ calls = 3
                   /\ waits = <<2000, 4000>>
                   /\ opResult = Returned(EmptyResult(caller))
        /\ (/\ calls = 1
            /\ lastResponse.kind = "rejected"
            /\ ~RateLimited(lastResponse.error))
              => /\ pc = "thrown"
                 /\ waits = <<>>
                 /\ opResult = Returned(EmptyResult(caller))
        /\ (/\ calls = 1
            /\ lastResponse.kind = "fulfilled"
            /\ lastResponse.payload \in {"empty", "noInlineData"})
              => /\ pc = "returned"
                 /\ waits = <<>>
                 /\ opResult = Returned(EmptyResult(caller))
        /\ Terminal => Len(waits) = calls - 1

\* generateStepVisual has returned null after three requests that were each
\* rejected with status 429.
C17_Witness ==
    /\ caller = "generateStepVisual" /\ pc = "thrown" /\ calls = 3
    /\ log = <<"call", "fail", "wait", "call", "fail", "wait", "call", "fail">>
    /\ lastResponse.kind = "rejected" /\ lastResponse.error.status = Some(429)
    /\ waits = <<2000, 4000>>
    /\ opResult = Returned(None)

\* C26: withRetry called with retries <= 0 never invokes fn and throws its
\* own error "Max retries exceeded"; with retries >= 1 that error is never
\* thrown: the loop is never left by its test, and what withRetry throws is
\* the error fn's last invocation threw.
C26_MaxRetriesOnlyWithoutAttempts ==
    /\ retries <= 0 =>
          /\ calls = 0
          /\ log = <<>>
          /\ pc \in {"loop", "thrown"}
          /\ pc = "thrown" =>
                /\ settled = Thrown(MaxRetriesError)
                /\ settled.error.message =
                      Some(<<"M", "a", "x", " ", "r", "e", "t", "r", "i", "e", "s",
                             " ", "e", "x", "c", "e", "e", "d", "e", "d">>)
    /\ retries >= 1 =>
          /\ ~(pc = "loop" /\ ~(i < retries))
          /\ pc = "thrown" =>
                /\ settled # Thrown(MaxRetriesError)
                /\ settled = Thrown(lastError)
                /\ lastError \in UpstreamErrors \cup SyntaxErrors \cup AtobErrors
                                  \cup {NoContentError}
                /\ calls >= 1
                /\ Last(log) = "fail"

\* withRetry called with retries = 0 has thrown without a call of fn.
C26_Witness ==
    /\ caller = "withRetry" /\ retries = 0
    /\ pc = "thrown" /\ calls = 0 /\ waits = <<>>
    /\ settled = Thrown(MaxRetriesError)

\* C6: generateRecipe throws, and returns no recipe, whenever the response
\* body is empty or is not of the recipe shape: what it returns was a
\* conforming body.
C6_RejectsNonRecipe ==
    (caller = "generateRecipe" /\ Terminal) =>
        /\ lastResponse.kind = "fulfilled" /\ lastResponse.payload # "conforming"
              => opResult.kind = "thrown"
        /\ opResult.kind = "returned" => lastResponse.payload = "conforming"

(***************************************************************************)
(* Claims about the markup transforms (specification MarkupSpec)           *)
(***************************************************************************)

HasChar(w, c) == \E k \in 1..Len(w) : w[k] = c
HasCloseTag(w) == \E k \in 1..(Len(w) - 1) : w[k] = ">" /\ w[k + 1] = ">"

\* The text with every annotation replaced by its name.
RECURSIVE NamesOnly(_)
NamesOnly(pieces) ==
    IF pieces = <<>> THEN <<>>
    ELSE (IF Head(pieces).kind = "ann" THEN Head(pieces).name ELSE Head(pieces).s)
            \o NamesOnly(Tail(pieces))

\* The text with every annotation replaced by "quantity of name".
RECURSIVE QuantitiesOfNames(_)
QuantitiesOfNames(pieces) ==
    IF pieces = <<>> THEN <<>>
    ELSE (IF Head(pieces).kind = "ann"
          THEN Head(pieces).quantity \o <<" ", "o", "f", " ">> \o Head(pieces).name
          ELSE Head(pieces).s)
            \o QuantitiesOfNames(Tail(pieces))

\* The three transforms give what the pieces say they should.
TransformsAgree ==
    /\ ran = "RichInstruction" => VisibleText(rendered) = NamesOnly(segs)
    /\ ran = "cleanText" => cleaned = NamesOnly(segs)
    /\ ran = "spokenText" => spoken = QuantitiesOfNames(segs)

\* A literal character that opens no tag.
PlainLit(seg) == seg.kind = "lit" /\ seg.s # <<"<">>

\* An annotation as the claim has it: name and quantity not empty, with
\* neither '|' nor ">>" in them.
WellFormedAsClaimed(seg) ==
    /\ seg.kind = "ann"
    /\ \A w \in {seg.name, seg.quantity} :
          w # <<>> /\ ~HasChar(w, "|") /\ ~HasCloseTag(w)

\* An annotation as the code has it: name and quantity not empty, with
\* neither '|' nor '>' in them.
WellFormed(seg) ==
    /\ seg.kind = "ann"
    /\ \A w \in {seg.name, seg.quantity} :
          w # <<>> /\ ~HasChar(w, "|") /\ ~HasChar(w, ">")

Malformed(seg) ==
    /\ seg.kind = "raw"
    /\ \/ ~HasCloseTag(seg.s)
       \/ ~HasChar(seg.s, "|")
       \/ seg.s[3] = "|"
       \/ (seg.s[Len(seg.s) - 2] = "|" /\ Count(seg.s, "|") = 1)

\* The piece at k, if it has no ">>", has none after it either: its "<<" is
\* matched by nothing.
Unmatched(k) ==
    HasCloseTag(segs[k].s) \/ ~HasCloseTag(Flatten(SubSeq(segs, k, Len(segs))))

\* The piece at k has the letter x, or nothing, on either side.
StandsApart(k) ==
    /\ k = 1 \/ segs[k - 1] = Lit("x")
    /\ k = Len(segs) \/ segs[k + 1] = Lit("x")

\* C8: malformed markup is inert in all three transforms, also in a text
\* with well-formed annotations elsewhere: the malformed spans are kept as
\* they are and only the annotations are rewritten.  (Stated for malformed
\* spans that a letter separates from the rest of the text, a "<<" without
\* ">>" having no ">>" anywhere after it.)
C8_MalformedInert ==
    (/\ \A k \in 1..Len(segs) :
           PlainLit(segs[k]) \/ WellFormed(segs[k]) \/ Malformed(segs[k])
     /\ \A k \in 1..Len(segs) :
           Malformed(segs[k]) => (StandsApart(k) /\ Unmatched(k)))
        => TransformsAgree

\* The tokens made of the spans the regular expression matched: split puts
\* them at the even places.
MatchedPlaces == {k \in 1..Len(rendered) : k % 2 = 0}
ContentOf(token) == SubSeq(token.part, 3, Len(token.part) - 2)

\* The content has one '|' and something on both sides of it.
ExactlyTwoParts(content) ==
    /\ Count(content, "|") = 1
    /\ content[1] # "|"
    /\ content[Len(content)] # "|"

\* The content has a '|' with something before it, and something other than
\* a second '|' right after it.
FirstTwoParts(content) ==
    \E q \in 2..(Len(content) - 1) :
        /\ content[q] = "|"
        /\ \A k \in 1..(q - 1) : content[k] # "|"
        /\ content[q + 1] # "|"

\* The parts of the tokens, put together again, are the text.
RECURSIVE PartsOf(_)
PartsOf(tokens) ==
    IF tokens = <<>> THEN <<>> ELSE Head(tokens).part \o PartsOf(Tail(tokens))

U16At(bytes, offset) == bytes[offset + 1] + 256 * bytes[offset + 2]
U32At(bytes, offset) ==
    bytes[offset + 1] + 256 * bytes[offset + 2] + 65536 * bytes[offset + 3]
        + 16777216 * bytes[offset + 4]
BytesAt(bytes, offset, n) == SubSeq(bytes, offset + 1, offset + n)

\* C10: pcmToWav returns 44 + n bytes: "RIFF", 36 + n, "WAVE", "fmt ", 16,
\* 1, channels = 1, sampleRate, byte_rate = sampleRate * channels * bits / 8,
\* block_align = channels * bits / 8 = 2, bits = 16, "data", n, and then the
\* n bytes of pcm unchanged; for n = 8000 and 24000 Hz the length is 8044,
\* byte_rate 48000 and block_align 2.
C10_WavLayout ==
    wav # <<>> =>
        LET n == Len(pcmData) IN
        /\ Len(wav) = 44 + n
        /\ \A k \in 1..Len(wav) : wav[k] \in 0..255
        /\ BytesAt(wav, 0, 4) = <<82, 73, 70, 70>>
        /\ U32At(wav, 4) = 36 + n
        /\ BytesAt(wav, 8, 4) = <<87, 65, 86, 69>>
        /\ BytesAt(wav, 12, 4) = <<102, 109, 116, 32>>
        /\ U32At(wav, 16) = 16
        /\ U16At(wav, 20) = 1
        /\ U16At(wav, 22) = 1
        /\ U32At(wav, 24) = sampleRate
        /\ U32At(wav, 28) * 8 = sampleRate * U16At(wav, 22) * U16At(wav, 34)
        /\ U16At(wav, 32) * 8 = U16At(wav, 22) * U16At(wav, 34)
        /\ U16At(wav, 32) = 2
        /\ U16At(wav, 34) = 16
        /\ BytesAt(wav, 36, 4) = <<100, 97, 116, 97>>
        /\ U32At(wav, 40) = n
        /\ \A k \in 1..n : wav[44 + k] = pcmData[k]
        /\ (n = 8000 /\ sampleRate = 24000) =>
              (Len(wav) = 8044 /\ U32At(wav, 28) = 48000 /\ U16At(wav, 32) = 2)

\* The 8000 bytes at 24000 Hz have been converted.
C10_Witness ==
    /\ wav # <<>> /\ Len(pcmData) = 8000 /\ sampleRate = 24000
    /\ Len(wav) = 8044 /\ wav[8044] = pcmData[8000]

(***************************************************************************)
(* Claims about RecipeCard's background loop (specification CardSpec)      *)
(***************************************************************************)

\* The calls of generateStepVisual a loop made, in order.
CallsOf(loop) == SelectSeq(loop.trace, LAMBDA e : e.ev = "call")

\* The loop was not cancelled: it runs, or ran to its end, with isMounted.
Live(loop) == loop.isMounted

\* A call starts only after the call before it has completed.
OneAtATime(loop) ==
    \A p \in DOMAIN loop.trace :
        loop.trace[p].ev = "call" /\ p < Len(loop.trace)
            => /\ loop.trace[p + 1].ev = "done"
               /\ loop.trace[p + 1].index = loop.trace[p].index

\* A delay lies between every two calls.
DelaysBetweenCalls(loop) ==
    \A p, q \in DOMAIN loop.trace :
        p < q /\ loop.trace[p].ev = "call" /\ loop.trace[q].ev = "call"
            => \E d \in (p + 1)..(q - 1) : loop.trace[d].ev = "delay"

InFlight == {k \in DOMAIN loops : loops[k].pc = "request"}

\* C12 as claimed: at most one request started by a background loop is in
\* flight, also after the recipe changes or the card is mounted again while
\* a request is pending.
C12_OneInFlightAsClaimed == Cardinality(InFlight) <= 1

\* C12: at most one background loop is not cancelled, so at most one request
\* of a loop that is not cancelled is in flight; the requests in flight
\* besides it belong to cancelled loops, one each.
C12_OneLiveInFlight ==
    /\ Cardinality({k \in DOMAIN loops : Live(loops[k])}) <= 1
    /\ Cardinality({k \in InFlight : Live(loops[k])}) <= 1
    /\ \A k \in DOMAIN loops : Live(loops[k]) => k = Len(loops)

\* A cancelled loop's request is pending while the loop after it has one in
\* flight, and was pending when that loop started.
C12_Witness ==
    /\ Len(loops) = 2
    /\ loops[1].pc = "request" /\ ~Live(loops[1])
    /\ loops[2].pc = "request" /\ Live(loops[2])
    /\ loops[1].recipe # loops[2].recipe

\* What a loop handled: a request that completed, or an index it skipped.
Handled(e) == e.ev \in {"done", "skip"}

ImagesBelong ==
    \A k \in Indices :
        stepImages[k] # NoImage
            => recipe # NoRecipe /\ stepImages[k] = Image(recipe, k, "loop")

\* A loop that is not cancelled is the loop of the mounted card's recipe.
LiveIsCurrent ==
    \A k \in DOMAIN loops : Live(loops[k]) => loops[k].recipe = recipe

\* C14: once the recipe has changed or the card is torn down, the loop of
\* the old recipe is cancelled; a cancelled loop starts no further request
\* and its steps leave the step-image map alone, also the step in which a
\* request of its own completes, after which it has ended; so every image
\* in the map was generated for the active recipe and for its index.
C14_StaleLoopInert ==
    [][/\ ImagesBelong'
       /\ LiveIsCurrent'
       /\ \A k \in DOMAIN loops :
             ~Live(loops[k]) =>
                 /\ CallsOf(loops'[k]) = CallsOf(loops[k])
                 /\ loops'[k] # loops[k] =>
                       /\ stepImages' = stepImages
                       /\ loops'[k].pc = "done"]_vars

\* A request of a cancelled loop gave an image after the loop was cancelled:
\* the loop has ended before its last index, and the map holds no image of
\* its recipe.
C14_Witness ==
    \E k \in DOMAIN loops :
        /\ ~Live(loops[k])
        /\ loops[k].pc = "done"
        /\ loops[k].i < loops[k].n
        /\ loops[k].trace # <<>>
        /\ Last(loops[k].trace).ev = "done"
        /\ Last(loops[k].trace).index < loops[k].n - 1
        /\ loops[k].outcome = "url"
        /\ recipe \notin {NoRecipe, loops[k].recipe}
        /\ \A j \in Indices : stepImages[j].recipe # loops[k].recipe

(***************************************************************************)
(* Claims about TutorialPlayer (specification PlayerSpec)                  *)
(***************************************************************************)

\* C15: when the audio of a step that is not the last ends while the player
\* is playing, a timer of 1.5 seconds is started and the index stays until
\* it fires; the index is advanced automatically only by such a timer, by
\* exactly one, and only at a moment when the player is playing; a press on
\* pause or play never changes the index.
C15_AdvancesOnlyWhilePlaying ==
    [][/\ (/\ playerLast' = "ended"
           /\ player.currentIndex # player.n - 1
           /\ player.isPlaying)
              => /\ timers' = Append(timers, 1500)
                 /\ player'.currentIndex = player.currentIndex
       /\ (/\ player'.currentIndex # player.currentIndex
           /\ playerLast' # "seek")
              => /\ playerLast' = "timer"
                 /\ player'.currentIndex = player.currentIndex + 1
                 /\ player.isPlaying
       /\ playerLast' = "togglePlay"
              => player'.currentIndex = player.currentIndex]_vars

(***************************************************************************)
(* Claims about App (specification AppSpec)                                *)
(***************************************************************************)

\* C16: when generateRecipe fails for a submitted query, App ends with the
\* error message set, no recipe and loading false; no recipe is ever held
\* together with an error message; and from a state with the message set,
\* submitting a query that is not blank starts a new generation for that
\* query and clears the message.
C16_FailureShown ==
    [][/\ (request.state = "pending" /\ request'.state = "rejected")
              => /\ app'.error # NoError
                 /\ app'.recipe = NoRecipe
                 /\ ~app'.loading
       /\ app'.error # NoError => app'.recipe = NoRecipe /\ ~app'.loading
       /\ (/\ app.error # NoError
           /\ searches' # searches
           /\ Trim(app.query) # <<>>)
              => /\ request'.state = "pending"
                 /\ request'.query = app.query
                 /\ app'.error = NoError
                 /\ app'.loading
                 /\ app'.recipe = NoRecipe]_vars

\* A generation is under way that was started from the state a failure
\* left, after an earlier search had given a recipe.
C16_Witness ==
    /\ request.state = "pending"
    /\ request.failures = 1
    /\ searches = 3
    /\ app.error = NoError
    /\ app.loading

(***************************************************************************)
(* Claims about generateStepVisual's prompt (specification PromptSpec)     *)
(***************************************************************************)

\* The previous instructions, each with its annotations replaced by their
\* names, in order, with "; " between one and the next.
RECURSIVE ListedInOrder(_)
ListedInOrder(ps) ==
    IF Len(ps) = 1 THEN NamesOnly(ps[1])
    ELSE ListedInOrder(SubSeq(ps, 1, Len(ps) - 1)) \o <<";", " ">>
            \o NamesOnly(ps[Len(ps)])

\* C18: the prompt holds the current instruction with its markup stripped:
\* as it is when that has at most 150 characters, and otherwise its first
\* 150 characters followed by "..." (the length is the stripped text's);
\* the context clause is there if and only if there are previous
\* instructions, and holds every one of them, stripped and in full, in
\* order, joined with "; ".
C18_PromptBuilt ==
    prompt.built =>
        LET stripped == NamesOnly(instruction)
        IN  /\ Len(stripped) <= 150 => prompt.action = stripped
            /\ Len(stripped) > 150 =>
                  /\ Len(prompt.action) = 153
                  /\ \A k \in 1..150 : prompt.action[k] = stripped[k]
                  /\ \A k \in 151..153 : prompt.action[k] = "."
            /\ StartsWith(prompt.context, ContextHeading)
                  <=> previousInstructions # <<>>
            /\ previousInstructions = <<>> => prompt.context = StartOfRecipe
            /\ previousInstructions # <<>> =>
                  prompt.context =
                      ContextHeading \o ListedInOrder(previousInstructions) \o <<".">>

\* A prompt was built from an instruction of more than 150 characters that
\* has exactly 150 once stripped, and from two previous instructions the
\* first of which has more than 150 characters once stripped.
C18_Witness ==
    /\ prompt.built
    /\ Len(Flatten(instruction)) > 150
    /\ Len(NamesOnly(instruction)) = 150
    /\ instruction[1].kind = "ann"
    /\ prompt.action = NamesOnly(instruction)
    /\ Len(previousInstructions) = 2
    /\ Len(NamesOnly(previousInstructions[1])) > 150
    /\ previousInstructions[2] # previousInstructions[1]

(***************************************************************************)
(* Claims about CookMode (specification CookSpec)                          *)
(***************************************************************************)

\* C19: when a step index has both a preloaded image (RecipeCard's
\* stepImages) and a locally generated one (CookMode's localImages), the
\* image CookMode uses for the step is the preloaded one.
C19_PreloadedPreferred ==
    isCookMode =>
        \A k \in Indices :
            (stepImages[k] # NoImage /\ localImages[k] # NoImage)
                => CookImages(stepImages, localImages)[k] = stepImages[k]

\* C20: a step-image request of the background loop and one of CookMode for
\* the same step of the same recipe can be in flight together (the witness),
\* and neither component waits for or reuses the other's request: when
\* CookMode is opened or moves to a step for which it has no image, a
\* request of its own for that step is in flight afterwards, whatever the
\* loops have pending; a step of a loop takes no request of CookMode out of
\* flight; and when a request of CookMode settles, the loops and stepImages
\* stay as they are.
C20_NoDeduplication ==
    [][/\ (/\ isCookMode'
            /\ (~isCookMode \/ currentIndex' # currentIndex)
            /\ CookImages(stepImages', localImages')[currentIndex'] = NoImage)
              => \E k \in DOMAIN cookRuns' :
                    cookRuns'[k] = [recipe |-> recipe', index |-> currentIndex',
                                    isMounted |-> TRUE]
       /\ loops' # loops => Len(cookRuns') >= Len(cookRuns)
       /\ Len(cookRuns') < Len(cookRuns)
              => (loops' = loops /\ stepImages' = stepImages)]_vars

\* The loop's request and CookMode's request for step 1 of the shown recipe
\* are both in flight.
C20_Witness ==
    /\ isCookMode /\ currentIndex = 1
    /\ \E k \in DOMAIN loops :
          /\ Live(loops[k]) /\ loops[k].pc = "request"
          /\ loops[k].recipe = recipe /\ loops[k].i = 1
    /\ \E k \in DOMAIN cookRuns :
          cookRuns[k] = [recipe |-> recipe, index |-> 1, isMounted |-> TRUE]
    /\ stepImages[1] = NoImage /\ localImages[1] = NoImage

(***************************************************************************)
(* Further claims about TutorialPlayer (specification PlayerSpec)          *)
(***************************************************************************)

\* C21: the current step index of TutorialPlayer is always one of 0..n-1,
\* n being the number of steps, so that the current step is defined.
C21_IndexInRange ==
    /\ player.currentIndex \in 0..(player.n - 1)
    /\ HasCurrentStep(player)

\* An image for step j arrives in this step: through preloadedImages or
\* through localImageCache.
ImageArrives(j) ==
    \/ /\ player.preloadedImages[j] = NoImage
       /\ player'.preloadedImages[j] # NoImage
    \/ /\ player.localImageCache[j] = NoImage
       /\ player'.localImageCache[j] # NoImage

\* C23: while the player is on step k with its content loaded, the arrival
\* of an image for another step leaves audioUrl, imageUrl and isLoading as
\* they are and starts no request of loadContent.
C23_OtherImageLeavesContent ==
    [][(/\ player.isMounted
        /\ ~player.isLoading
        /\ \E j \in Indices : j # player.currentIndex /\ ImageArrives(j))
          => /\ player'.currentIndex = player.currentIndex
             /\ player'.audioUrl = player.audioUrl
             /\ player'.imageUrl = player.imageUrl
             /\ player'.isLoading = player.isLoading
             /\ contentRuns' = contentRuns]_vars

\* The runs of loadContent that are not superseded.
ActiveRuns(runs) == {k \in DOMAIN runs : runs[k].active}

\* Run k of loadContent is the one whose request settles in this step.
Settles(k) ==
    /\ k \in DOMAIN contentRuns
    /\ \/ /\ playerLast' = "imageDone"
          /\ contentRuns[k].stage = "image"
          /\ contentRuns' = SortContent([contentRuns EXCEPT ![k].stage = "audio"])
       \/ /\ playerLast' = "audioDone"
          /\ contentRuns[k].stage = "audio"
          /\ contentRuns' = Without(contentRuns, k)

\* C24: a run of loadContent started for step k is superseded as soon as
\* the current index is another or the effect has run again or the player
\* is closed (at most one run is not superseded, and it is for the current
\* index of the mounted player); when a request of loadContent settles and
\* the player's state changes, the run was one that is not superseded: a
\* superseded run writes neither imageUrl nor audioUrl nor isLoading.
C24_StaleLoadInert ==
    [][/\ Cardinality(ActiveRuns(contentRuns')) <= 1
       /\ \A k \in ActiveRuns(contentRuns') :
             /\ player'.isMounted
             /\ contentRuns'[k].index = player'.currentIndex
       /\ (playerLast' \in {"imageDone", "audioDone"} /\ player' # player)
             => \E k \in ActiveRuns(contentRuns) :
                   /\ Settles(k)
                   /\ contentRuns[k].index = player.currentIndex
       /\ (/\ playerLast' \in {"imageDone", "audioDone"}
           /\ \E k \in DOMAIN contentRuns : Settles(k)
           /\ \A k \in DOMAIN contentRuns : Settles(k) => ~contentRuns[k].active)
             => player' = player]_vars

\* The image request of a run started for another step than the current
\* one has settled while the current step's run still awaits its image.
C24_Witness ==
    /\ player.isMounted
    /\ playerLast = "imageDone"
    /\ player.imageUrl = NoImage
    /\ \E k \in DOMAIN contentRuns :
          /\ ~contentRuns[k].active
          /\ contentRuns[k].stage = "audio"
          /\ contentRuns[k].index # player.currentIndex
    /\ \E k \in DOMAIN contentRuns :
          /\ contentRuns[k].active
          /\ contentRuns[k].stage = "image"
          /\ contentRuns[k].index = player.currentIndex

(***************************************************************************)
(* Further claims about CookMode (specification CookSpec)                  *)
(***************************************************************************)

\* C22: while CookMode stays on one step without an image, the settling of
\* one of its step-image requests starts no other request: in a step in
\* which a request of CookMode settles and the step shown, the recipe and
\* both image maps stay as they are, every request in flight afterwards was
\* in flight before.
C22_NoRequestAfterFailedLoad ==
    [][(/\ isCookMode /\ isCookMode'
        /\ cookRuns' # cookRuns
        /\ loops' = loops
        /\ recipe' = recipe
        /\ currentIndex' = currentIndex
        /\ stepImages' = stepImages
        /\ localImages' = localImages)
          => Len(cookRuns') < Len(cookRuns)]_vars

(***************************************************************************)
(* Further claims about App (specification AppSpec)                        *)
(***************************************************************************)

\* C25: in every state of App the recipe and the error message are not
\* both there; while loading neither is; loading is true exactly while a
\* call of generateRecipe is in flight, and the form, whose controls are
\* disabled while loading, starts no second one: at most one is in flight.
C25_OneGeneration ==
    /\ ~(app.recipe # NoRecipe /\ app.error # NoError)
    /\ app.loading => (app.recipe = NoRecipe /\ app.error = NoError)
    /\ app.loading <=> request.inFlight = 1
    /\ request.inFlight <= 1

\* A second search is under way, after one that gave a recipe.
C25_Witness ==
    /\ app.loading /\ request.inFlight = 1
    /\ searches = 2 /\ request.failures = 0
    /\ app.hasSearched /\ Trim(app.query) # <<>>

====
